---- MODULE Spec2Model ----
(***************************************************************************)
(* Model of the Jarvis agent loop: Coordinator.start_interaction (the      *)
(* interaction driver), DefaultToolExecutor.execute (the tool dispatcher), *)
(* LLMThinkingEngine (the decision producer) and ConversationManager (the  *)
(* conversation store).                                                    *)
(*                                                                         *)
(* Texts are sequences of tokens: an f-string is the concatenation of its  *)
(* literal parts and its interpolated values.  The Chinese literals of the *)
(* source are written as ASCII tokens; the comment at each use gives the   *)
(* original literal.                                                       *)
(***************************************************************************)
EXTENDS Integers, Sequences, FiniteSets, TLC

(***************************************************************************)
(* Bounds of the model                                                     *)
(***************************************************************************)
\* largest max_iterations a Coordinator is built with
MaxIterations == 3
\* largest max_history_length a ConversationManager is built with
MaxHistory == 2
\* number of turns run against one coordinator
MaxTurns == 1
\* number of clock readings (messages created, managers built by a failed
\* load) in a run of ConversationManager calls
MaxAppends == 2
\* number of _parse_llm_response calls in a run of the parser
MaxParses == 2

(***************************************************************************)
(* Values (Python objects that tools take and return)                      *)
(***************************************************************************)
IntVal(i) == [tag |-> "int", n |-> i, d |-> 1, s |-> <<>>]
\* the float n/d produced by true division
FloatVal(a, b) == [tag |-> "float", n |-> a, d |-> b, s |-> <<>>]
StrVal(t) == [tag |-> "str", n |-> 0, d |-> 1, s |-> t]
BoolVal(b) == [tag |-> "bool", n |-> (IF b THEN 1 ELSE 0), d |-> 1, s |-> <<>>]
\* a dict or list, described by its content
ObjVal(t) == [tag |-> "obj", n |-> 0, d |-> 1, s |-> t]
NoneVal == [tag |-> "none", n |-> 0, d |-> 1, s |-> <<>>]

\* str(v): the text of a value, one token per value
StrOf(v) ==
    CASE v.tag = "str" -> v.s
      [] v.tag = "none" -> <<"None">>
      [] v.tag = "obj" -> <<"{">> \o v.s \o <<"}">>
      [] v.tag = "int" -> <<ToString(v.n)>>
      [] v.tag = "bool" -> <<(IF v.n = 1 THEN "True" ELSE "False")>>
      [] v.tag = "float" -> <<ToString(v.n), "/", ToString(v.d)>>

\* Optional[str]
NoText == [some |-> FALSE, text |-> <<>>]
SomeText(t) == [some |-> TRUE, text |-> t]

\* t contains the token tok
Contains(t, tok) == \E i \in 1..Len(t) : t[i] = tok

\* sub occurs in t as a contiguous run
ContainsText(t, sub) ==
    \E i \in 0..(Len(t) - Len(sub)) : SubSeq(t, i + 1, i + Len(sub)) = sub

(***************************************************************************)
(* ToolCall, ToolResult, Thought                                           *)
(***************************************************************************)
\* a parameters value: a mapping (set of <<name, value>> pairs with
\* distinct names) or something that is not a mapping
Params(kw) == [is_map |-> TRUE, kw |-> kw]
NotAMapping == [is_map |-> FALSE, kw |-> {}]
ParamNames(p) == {e[1] : e \in p.kw}
ParamValue(p, name) == (CHOOSE e \in p.kw : e[1] = name)[2]

\* Thought.action_content: a text, a ToolCall, or any other decoded value
TextContent(t) ==
    [tag |-> "text", text |-> t, tool_name |-> "", parameters |-> Params({}), reason |-> <<>>]
ToolCall(name, params, why) ==
    [tag |-> "toolcall", text |-> <<>>, tool_name |-> name, parameters |-> params, reason |-> why]
\* a decoded JSON value that is neither text nor turned into a ToolCall
OtherContent(t) ==
    [tag |-> "other", text |-> t, tool_name |-> "", parameters |-> Params({}), reason |-> <<>>]

ToolResult(name, ok, res, err) ==
    [tool_name |-> name, success |-> ok, result |-> res, error |-> err]

Thought(kind, content, conf, why) ==
    [action_type |-> kind, action_content |-> content, confidence |-> conf, reasoning |-> why]

ActionType == {"DIRECT_REPLY", "CALL_TOOL", "ASK_USER", "DELEGATE"}

(***************************************************************************)
(* The tools of the tools package                                          *)
(***************************************************************************)
\* DefaultToolExecutor._get_tool_name applied to the classes of the tools
\* package: Calculator, MailReceiver, MailSender, Moss, SchedulerTool
ToolNames == {"calculator", "mail_receiver", "mail_sender", "moss", "scheduler_tool"}

\* list(self.tools.keys()): the registered names in registration order
\* (the order of the package directory listing)
RECURSIVE KeyList(_)
KeyList(names) ==
    IF names = {} THEN <<>>
    ELSE LET n == CHOOSE x \in names : TRUE IN <<n>> \o KeyList(names \ {n})

\* the named parameters of each tool's execute: required, and with defaults
Signature(tool) ==
    CASE tool = "calculator" ->
           [required |-> {"a", "b", "operation"}, optional |-> {}]
      [] tool = "moss" ->
           [required |-> {"task"}, optional |-> {}]
      [] tool = "mail_sender" ->
           [required |-> {"to_addrs", "subject", "body"},
            optional |-> {"from_addr", "body_type"}]
      [] tool = "mail_receiver" ->
           [required |-> {}, optional |-> {}]
      [] tool = "scheduler_tool" ->
           [required |-> {"action"},
            optional |-> {"job_id", "trigger", "trigger_args", "func", "args", "kwargs"}]

\* tool.execute(**parameters) binds: parameters is a mapping that names
\* every required parameter and no unknown one
Binds(tool, p) ==
    /\ p.is_map
    /\ Signature(tool).required \subseteq ParamNames(p)
    /\ ParamNames(p) \subseteq Signature(tool).required \cup Signature(tool).optional

\* what a tool's execute does once its parameters are bound
Return(v) == [kind |-> "return", exc |-> "", value |-> v, msg |-> <<>>]
Raise(exc, m) == [kind |-> "raise", exc |-> exc, value |-> NoneVal, msg |-> m]

\* a calculator that subtracts whatever the operation is
CalculatorSubtracts(p) ==
    Return(IntVal(ParamValue(p, "a").n - ParamValue(p, "b").n))

\* Calculator.execute: every failure is caught and returned as a text
CalculatorExecute(p) ==
    LET a == ParamValue(p, "a")
        b == ParamValue(p, "b")
        operation == ParamValue(p, "operation")
    IN       CASE operation = StrVal(<<"add">>) -> Return(IntVal(a.n + b.n))
               [] operation = StrVal(<<"subtract">>) -> Return(IntVal(a.n - b.n))
               [] operation = StrVal(<<"multiply">>) -> Return(IntVal(a.n * b.n))
               [] operation = StrVal(<<"divide">>) ->
                    IF b.n = 0
                    THEN \* "计算出错: 除数不能为0"
                         Return(StrVal(<<"calc_error: ", "division by zero">>))
                    ELSE Return(FloatVal(a.n, b.n))
               [] OTHER -> \* "计算出错: 不支持的操作: {operation}"
                    Return(StrVal(<<"calc_error: ", "unsupported operation: ">>
                                  \o StrOf(operation)))

\* Moss.execute: LLMThinkingEngine(system_prompt_file=...) is rejected by
\* LLMThinkingEngine.__init__(self, config), a TypeError raised in the body
MossExecute(p) ==
    Raise("TypeError", <<"__init__() got an unexpected keyword argument 'system_prompt_file'">>)

\* MailSender.execute: the outcomes its settings and the SMTP server allow
MailSenderExecute(p) ==
    {Raise("AttributeError", <<"'MailSender' object has no attribute 'ENV_SMTP_HOST'">>),
     Raise("ValueError", <<"send_failed: ", "smtp">>)}
    \cup (IF ParamValue(p, "to_addrs").tag \in {"str", "obj"}
          THEN {Return(BoolVal(TRUE))}
          ELSE \* ','.join(to_addrs) on a value that is not iterable
               {Raise("TypeError", <<"can only join an iterable">>)})

\* MailReceiver.execute: the outcomes its settings and the IMAP server allow
MailReceiverExecute(p) ==
    {Return(ObjVal(<<"mails">>)),
     Raise("AttributeError", <<"'MailReceiver' object has no attribute 'ENV_IMAP_HOST'">>),
     Raise("ValueError", <<"read_failed: ", "imap">>)}

\* a scheduler tool without its except clause: the failure leaves execute
SchedulerToolRaises(p) ==
    {Raise("ValueError", <<"scheduler_failed">>)}

\* SchedulerTool.execute: every failure is caught and returned as {"error": ..}
SchedulerToolExecute(p) ==
    LET action == ParamValue(p, "action")
    IN  IF action = StrVal(<<"list">>) THEN {Return(ObjVal(<<"jobs">>))}
        ELSE IF action = StrVal(<<"start">>)
             THEN {Return(ObjVal(<<"started">>)), Return(ObjVal(<<"error">>))}
        ELSE IF action = StrVal(<<"shutdown">>)
             THEN {Return(ObjVal(<<"shutdown">>)), Return(ObjVal(<<"error">>))}
        ELSE IF action = StrVal(<<"remove">>)
             THEN IF "job_id" \in ParamNames(p)
                  THEN {Return(ObjVal(<<"removed">>)), Return(ObjVal(<<"error">>))}
                  ELSE {Return(ObjVal(<<"error">>))}
        ELSE IF action = StrVal(<<"add">>)
             THEN IF "func" \in ParamNames(p)
                  THEN {Return(ObjVal(<<"job_id">>)), Return(ObjVal(<<"error">>))}
                  ELSE {Return(ObjVal(<<"error">>))}
        ELSE {Return(ObjVal(<<"error">>))}

\* the results tool.execute(**parameters) can have, bound parameters given
ToolBody(tool, p) ==
    CASE tool = "calculator" -> {CalculatorExecute(p)}
      [] tool = "moss" -> {MossExecute(p)}
      [] tool = "mail_sender" -> MailSenderExecute(p)
      [] tool = "mail_receiver" -> MailReceiverExecute(p)
      [] tool = "scheduler_tool" -> SchedulerToolExecute(p)

\* tool.execute(**parameters): a call that does not bind raises TypeError
\* before the body runs; bound |-> whether the body was entered
ToolBehaviours(tool, p) ==
    IF Binds(tool, p)
    THEN {[bound |-> TRUE, r |-> r] : r \in ToolBody(tool, p)}
    ELSE {[bound |-> FALSE,
           r |-> Raise("TypeError", <<"execute() got unexpected or missing arguments">>)]}

(***************************************************************************)
(* DefaultToolExecutor.execute                                             *)
(***************************************************************************)
\* the result of execute: a ToolResult that is returned, or an exception
\* that leaves execute
Returned(res) == [raised |-> FALSE, exc |-> "", res |-> res]
Raised(exc) == [raised |-> TRUE, exc |-> exc, res |-> ToolResult("", FALSE, NoneVal, NoText)]

\* the unknown-tool error without the list of registered tools
NotFoundErrorBare(tool_name, registered) ==
    <<"tool '", tool_name, "' not found. available: ">>

\* f"工具 '{tool_name}' 不存在。可用工具: {list(self.tools.keys())}"
NotFoundError(tool_name, registered) ==
    <<"tool '", tool_name, "' not found. available: ">> \o KeyList(registered)

\* except clauses that lose the message of the exception
ExecuteHandlerNoMessage(tool_name, exc, m) ==
    IF exc = "TypeError"
    THEN ToolResult(tool_name, FALSE, NoneVal, SomeText(<<"param_error: ">>))
    ELSE ToolResult(tool_name, FALSE, NoneVal, SomeText(<<"exec_error: ">>))

\* except clauses that leave the error unset
ExecuteHandlerNoError(tool_name, exc, m) ==
    ToolResult(tool_name, FALSE, NoneVal, NoText)

\* the except clauses of execute
ExecuteHandler(tool_name, exc, m) ==
    IF exc = "TypeError"
    THEN \* f"参数错误: {str(e)}"
         ToolResult(tool_name, FALSE, NoneVal, SomeText(<<"param_error: ">> \o m))
    ELSE \* f"执行错误: {str(e)}"
         ToolResult(tool_name, FALSE, NoneVal, SomeText(<<"exec_error: ">> \o m))

\* execute(tool_call) for a registry and one behaviour b of the called tool
Execute(registry, tool_call, b) ==
    IF tool_call.tag # "toolcall"
    THEN \* tool_call.tool_name is read before the try
         Raised("AttributeError")
    ELSE LET tool_name == tool_call.tool_name IN
         IF tool_name \notin registry
         THEN Returned(ToolResult(tool_name, FALSE, NoneVal,
                                   SomeText(NotFoundError(tool_name, registry))))
         ELSE IF b.r.kind = "return"
              THEN Returned(ToolResult(tool_name, TRUE, b.r.value, NoText))
              ELSE Returned(ExecuteHandler(tool_name, b.r.exc, b.r.msg))

\* the behaviours the called tool can show for this call; a call that
\* reaches no tool has the single behaviour "not called"
NotCalled == [bound |-> FALSE, r |-> Return(NoneVal)]
BehavioursFor(registry, tool_call) ==
    IF tool_call.tag = "toolcall" /\ tool_call.tool_name \in registry
    THEN ToolBehaviours(tool_call.tool_name, tool_call.parameters)
    ELSE {NotCalled}

\* the methods of DefaultToolExecutor: those it defines (lines 40-185) and
\* the abstract execute of its base class
Methods == {"__init__", "_load_tools", "_get_tool_name", "execute", "list_tools"}

\* hasattr(tool_executor, name)
HasAttr(name) == name \in Methods

\* tool.__class__.__name__ of a registered tool
ClassName(tool) ==
    CASE tool = "calculator" -> "Calculator"
      [] tool = "moss" -> "Moss"
      [] tool = "mail_sender" -> "MailSender"
      [] tool = "mail_receiver" -> "MailReceiver"
      [] tool = "scheduler_tool" -> "SchedulerTool"

\* list_tools(): for every registered tool its class name, the parameter
\* names of its execute and the docstring of its execute (each tool of the
\* package has one)
ListTools(registered) ==
    [tool \in registered |->
        [class |-> ClassName(tool),
         parameters |-> Signature(tool).required \cup Signature(tool).optional,
         docstring |-> <<"doc of ", ClassName(tool), ".execute">>]]

(***************************************************************************)
(* ConversationManager                                                     *)
(***************************************************************************)
\* Message.metadata: {} or the dict written by _finalize_response
NoLabel == [some |-> FALSE, label |-> ""]
SomeLabel(l) == [some |-> TRUE, label |-> l]
NoMetadata == [keys |-> {}, action_type |-> NoLabel, tool_results |-> <<>>]
Message(role, content, timestamp, metadata) ==
    [role |-> role, content |-> content, timestamp |-> timestamp, metadata |-> metadata]

\* ConversationContext()
EmptyContext ==
    [last_tool_results |-> <<>>, last_user_intent |-> NoText,
     last_assistant_action |-> NoLabel, context_summary |-> NoText]

\* an optional argument: None, or a given value
None == [given |-> FALSE]
Given(v) == [given |-> TRUE, v |-> v]

\* an update that builds a new context from its arguments: a field whose
\* argument is None is reset
UpdateContextReplaces(ctx, results, user_intent, assistant_action, summary) ==
    [last_tool_results |-> IF results.given THEN results.v ELSE <<>>,
     last_user_intent |-> IF user_intent.given THEN SomeText(user_intent.v) ELSE NoText,
     last_assistant_action |->
        IF assistant_action.given THEN SomeLabel(assistant_action.v) ELSE NoLabel,
     context_summary |-> IF summary.given THEN SomeText(summary.v) ELSE NoText]

\* an update that tests its arguments for truth: an empty list of results
\* leaves the field as it is
UpdateContextIfTruthy(ctx, results, user_intent, assistant_action, summary) ==
    [last_tool_results |->
        IF results.given /\ results.v # <<>> THEN results.v ELSE ctx.last_tool_results,
     last_user_intent |->
        IF user_intent.given THEN SomeText(user_intent.v) ELSE ctx.last_user_intent,
     last_assistant_action |->
        IF assistant_action.given THEN SomeLabel(assistant_action.v)
        ELSE ctx.last_assistant_action,
     context_summary |->
        IF summary.given THEN SomeText(summary.v) ELSE ctx.context_summary]

\* ConversationContext.update / ConversationManager.update_context: every
\* argument that is not None replaces its field
UpdateContext(ctx, results, user_intent, assistant_action, summary) ==
    [last_tool_results |->
        IF results.given THEN results.v ELSE ctx.last_tool_results,
     last_user_intent |->
        IF user_intent.given THEN SomeText(user_intent.v) ELSE ctx.last_user_intent,
     last_assistant_action |->
        IF assistant_action.given THEN SomeLabel(assistant_action.v)
        ELSE ctx.last_assistant_action,
     context_summary |->
        IF summary.given THEN SomeText(summary.v) ELSE ctx.context_summary]

\* list.pop(0)
Tail1(q) == SubSeq(q, 2, Len(q))

\* an add_message that puts the message in front of the list
AddMessageAtFront(msgs, cap, m) ==
    LET inserted == <<m>> \o msgs
    IN  IF Len(inserted) > cap THEN SubSeq(inserted, 1, cap) ELSE inserted

\* an add_message that drops the newest message when over capacity
AddMessageEvictsNewest(msgs, cap, m) ==
    IF Len(msgs) + 1 > cap THEN msgs ELSE Append(msgs, m)

\* add_message: append, then drop the oldest message when over capacity
AddMessage(msgs, cap, m) ==
    LET appended == Append(msgs, m)
    IN  IF Len(appended) > cap THEN Tail1(appended) ELSE appended

\* q[i:] for a list q and an integer i
SliceFrom(q, i) ==
    LET start == IF i < 0 THEN (IF Len(q) + i < 0 THEN 0 ELSE Len(q) + i)
                 ELSE (IF i > Len(q) THEN Len(q) ELSE i)
    IN  SubSeq(q, start + 1, Len(q))

\* get_recent_messages(count): self.messages[-count:] if self.messages else []
GetRecentMessages(msgs, count) == IF msgs # <<>> THEN SliceFrom(msgs, 0 - count) ELSE <<>>

\* Message.to_dict / get_conversation_history
ToDict(m) == [role |-> m.role, content |-> m.content]
GetConversationHistory(msgs) == [i \in 1..Len(msgs) |-> ToDict(msgs[i])]

\* a cut that keeps the whole text
PrefixWhole(t, n) == t

\* text[:n]
Prefix(t, n) == SubSeq(t, 1, IF Len(t) < n THEN Len(t) ELSE n)

(***************************************************************************)
(* Coordinator: messages and summaries built by the driver                 *)
(***************************************************************************)
\* str(ActionType.X)
StrOfActionType(kind) == "ActionType." \o kind

\* str(result.error) inside an f-string
StrOfOptional(o) == IF o.some THEN o.text ELSE <<"None">>

\* a failure message that leaves out the error text
FailureMessageNoError(result) ==
    TextContent(<<"exec_tool ", result.tool_name, " failed: ">>)

\* f"执行工具 {result.tool_name} 失败: {result.error}"
FailureMessage(result) ==
    TextContent(<<"exec_tool ", result.tool_name, " failed: ">> \o StrOfOptional(result.error))

\* "处理请求时超过最大迭代次数，请简化您的问题后重试。"
BudgetMessage == TextContent(<<"max_iterations_exceeded">>)

\* metadata["tool_results"] of the assistant message
MetaSummary(results) ==
    [i \in 1..Len(results) |->
        [tool |-> results[i].tool_name, success |-> results[i].success]]

\* the tool_results argument of update_context; 200 is the cut of str(r.result)
ContextSummary(results) ==
    [i \in 1..Len(results) |->
        [tool_name |-> results[i].tool_name, success |-> results[i].success,
         result |-> Prefix(StrOf(results[i].result), 200)]]

(***************************************************************************)
(* LLMThinkingEngine                                                       *)
(***************************************************************************)
\* A response text is a sequence of tokens: "{" and "}" are the braces, a
\* key of JsonBodies is the text of the members of one well-formed JSON
\* object, and any other token is text without braces.
\* Confidences are in hundredths: 50 is 0.5.

\* decoded JSON values
JStr(l) == [t |-> "str", s |-> l, n |-> 0]
JNum(i) == [t |-> "num", s |-> "", n |-> i]
JNull == [t |-> "null", s |-> "", n |-> 0]
\* a decoded dict as action_content; has |-> the keys that are present
DictContent(has, name, params, why) ==
    [tag |-> "dict", text |-> <<>>, tool_name |-> name, parameters |-> params,
     reason |-> why, has |-> has]
\* a decoded JSON object; has |-> the keys that are present
JsonObject(has, kind, content, conf, why) ==
    [has |-> has, action_type |-> kind, action_content |-> content,
     confidence |-> conf, reasoning |-> why]

AllKeys == {"action_type", "action_content", "confidence", "reasoning"}
AddParams ==
    Params({<<"a", IntVal(10)>>, <<"b", IntVal(5)>>, <<"operation", StrVal(<<"add">>)>>})

\* the JSON objects the modelled LLM can write
JsonBodies ==
    [reply |-> JsonObject(AllKeys, JStr("direct_reply"), TextContent(<<"hello">>),
                          JNum(90), <<"r">>),
     ask |-> JsonObject(AllKeys, JStr("Ask_User"), TextContent(<<"which?">>),
                        JNum(80), <<"r">>),
     delegate |-> JsonObject(AllKeys \ {"reasoning"}, JStr("DELEGATE"),
                             TextContent(<<"sub">>), JNum(100), <<>>),
     tool |-> JsonObject(AllKeys, JStr("call_tool"),
                         DictContent({"tool_name", "parameters", "reason"},
                                     "calculator", AddParams, <<"why">>),
                         JNum(90), <<"r">>),
     tool_jobs |-> JsonObject(AllKeys, JStr("Call_Tool"),
                         DictContent({"tool_name", "parameters", "reason"},
                                     "scheduler_tool",
                                     Params({<<"action", StrVal(<<"list">>)>>}), <<"why">>),
                         JNum(90), <<"r">>),
     tool_unknown |-> JsonObject(AllKeys, JStr("CALL_TOOL"),
                         DictContent({"tool_name", "parameters"},
                                     "unknown_tool", Params({}), <<>>),
                         JNum(90), <<"r">>),
     tool_bare |-> JsonObject(AllKeys, JStr("CALL_TOOL"),
                         DictContent({}, "", Params({}), <<>>), JNum(70), <<"r">>),
     tool_badparams |-> JsonObject(AllKeys, JStr("CALL_TOOL"),
                         DictContent({"tool_name", "parameters"},
                                     "calculator", NotAMapping, <<>>),
                         JNum(70), <<"r">>),
     tool_text |-> JsonObject(AllKeys, JStr("CALL_TOOL"),
                         TextContent(<<"calculator">>), JNum(90), <<"r">>),
     bogus |-> JsonObject(AllKeys, JStr("think_more"), TextContent(<<"hm">>),
                          JNum(90), <<"r">>),
     type_number |-> JsonObject(AllKeys, JNum(5), TextContent(<<"hm">>),
                                JNum(90), <<"r">>),
     conf_high |-> JsonObject(AllKeys, JStr("DIRECT_REPLY"), TextContent(<<"hi">>),
                              JNum(150), <<"r">>),
     conf_low |-> JsonObject(AllKeys, JStr("DIRECT_REPLY"), TextContent(<<"hi">>),
                             JNum(-100), <<"r">>),
     conf_text |-> JsonObject(AllKeys, JStr("DIRECT_REPLY"), TextContent(<<"hi">>),
                              JStr("abc"), <<"r">>),
     conf_null |-> JsonObject(AllKeys, JStr("DIRECT_REPLY"), TextContent(<<"hi">>),
                              JNull, <<"r">>),
     no_conf |-> JsonObject({"action_type", "action_content"}, JStr("DIRECT_REPLY"),
                            TextContent(<<"hi">>), JNull, <<>>),
     reply_dict |-> JsonObject(AllKeys, JStr("DIRECT_REPLY"),
                         DictContent({"tool_name"}, "calculator", Params({}), <<>>),
                         JNum(90), <<"r">>)]

\* str.find / str.rfind: 0-based index of the first / last tok, -1 if none
Find(t, tok) ==
    IF Contains(t, tok)
    THEN (CHOOSE i \in 1..Len(t) : t[i] = tok /\ \A j \in 1..(i - 1) : t[j] # tok) - 1
    ELSE -1
\* a search for the last tok that takes the text to end with it
RFindEnd(t, tok) == Len(t) - 1

RFind(t, tok) ==
    IF Contains(t, tok)
    THEN (CHOOSE i \in 1..Len(t) : t[i] = tok /\ \A j \in (i + 1)..Len(t) : t[j] # tok) - 1
    ELSE -1

\* json.loads of a text that starts with "{" and ends with "}"
JsonLoads(t) ==
    IF t = <<"{", "}">>
    THEN [ok |-> TRUE, obj |-> JsonObject({}, JNull, OtherContent(<<>>), JNull, <<>>)]
    ELSE IF Len(t) = 3 /\ t[2] \in DOMAIN JsonBodies
    THEN [ok |-> TRUE, obj |-> JsonBodies[t[2]]]
    ELSE [ok |-> FALSE, obj |-> JsonObject({}, JNull, OtherContent(<<>>), JNull, <<>>)]

\* str.upper() on the labels of the model
Upper(l) ==
    CASE l \in {"direct_reply", "DIRECT_REPLY", "Direct_Reply"} -> "DIRECT_REPLY"
      [] l \in {"call_tool", "CALL_TOOL", "Call_Tool"} -> "CALL_TOOL"
      [] l \in {"ask_user", "ASK_USER", "Ask_User"} -> "ASK_USER"
      [] l \in {"delegate", "DELEGATE", "Delegate"} -> "DELEGATE"
      [] l = "think_more" -> "THINK_MORE"
      [] OTHER -> l

\* float(x) where it is defined: numbers, and texts that spell a number
FloatOk(j) == j.t = "num"

\* an except branch whose message leaves out the raw response
ParseFallbackNoRaw(e, response_content) ==
    Thought("DIRECT_REPLY", TextContent(<<"parse_error: ", e>>), 30, <<"parse_error: ", e>>)

\* the except branch of _parse_llm_response
\* f"处理请求时出错：{str(e)}，原始响应：{response_content}", f"解析错误：{str(e)}"
ParseFallback(e, response_content) ==
    Thought("DIRECT_REPLY",
            TextContent(<<"parse_error: ", e, " raw: ">> \o response_content),
            30, <<"parse_error: ", e>>)

\* dict.get(key, default) on a decoded object
Get(obj, key, default) == IF key \in obj.has THEN obj[key] ELSE default

\* _parse_llm_response
ParseLLMResponse(response_content, thinking_content) ==
    LET json_start == Find(response_content, "{")
        json_end == RFind(response_content, "}") + 1
        found == json_start # -1 /\ json_end > json_start
        loaded == JsonLoads(SubSeq(response_content, json_start + 1, json_end))
        parsed ==
            IF found THEN loaded.obj
            ELSE \* thinking_content or "无法完全理解请求"
                 JsonObject(AllKeys, JStr("DIRECT_REPLY"), TextContent(response_content),
                            JNum(50),
                            IF thinking_content # <<>> THEN thinking_content
                            ELSE <<"not understood">>)
        label == Get(parsed, "action_type", JStr("DIRECT_REPLY"))
        upper == Upper(label.s)
        action_type == IF upper \in ActionType THEN upper ELSE "DIRECT_REPLY"
        content == Get(parsed, "action_content", TextContent(<<>>))
        action_content ==
            IF action_type = "CALL_TOOL" /\ content.tag = "dict"
            THEN ToolCall(
                     IF "tool_name" \in content.has THEN content.tool_name ELSE "",
                     IF "parameters" \in content.has THEN content.parameters ELSE Params({}),
                     IF "reason" \in content.has THEN content.reason ELSE <<>>)
            ELSE content
        confidence == Get(parsed, "confidence", JNum(50))
    IN  IF found /\ ~loaded.ok THEN ParseFallback("JSONDecodeError", response_content)
        ELSE IF label.t # "str" THEN ParseFallback("AttributeError", response_content)
        ELSE IF ~FloatOk(confidence)
             THEN ParseFallback(IF confidence.t = "null" THEN "TypeError" ELSE "ValueError",
                                response_content)
        ELSE Thought(action_type, action_content, confidence.n,
                     Get(parsed, "reasoning", thinking_content))

\* what _call_llm returns: (thinking_content, response_content)
LLMResult(thinking, content) == [thinking |-> thinking, content |-> content]
LLMResults ==
    {LLMResult(<<"th">>, <<"t", "{", k, "}">>) : k \in DOMAIN JsonBodies}
    \cup {LLMResult(<<>>, <<"plain">>),
          LLMResult(<<"th">>, <<"plain">>),
          LLMResult(<<>>, <<"}", "t", "{">>),
          LLMResult(<<>>, <<"{", "t">>),
          LLMResult(<<>>, <<"{", "}">>),
          LLMResult(<<>>, <<"{", "reply", "}", "{", "reply", "}">>),
          \* the except branch of _call_llm: f"调用LLM时出错：{str(e)}"
          LLMResult(<<>>, <<"llm_call_error: ", "timeout">>),
          LLMResult(<<>>, <<"llm_call_error: ", "{", "code", "}">>)}

\* _build_messages: the request sent to the LLM for an InteractionContext
ThoughtMessage(thought) ==
    IF thought.action_type = "CALL_TOOL"
    THEN \* f"我决定调用工具：{tool_name}，参数为：{parameters}，原因是：{reason}"
         [role |-> "assistant",
          content |-> TextContent(<<"call_tool: ", thought.action_content.tool_name, " params: ">>
                          \o KeyList(ParamNames(thought.action_content.parameters))
                          \o <<" reason: ">> \o thought.action_content.reason)]
    ELSE \* f"我的回复是：{thought.action_content}"
         [role |-> "assistant",
          content |-> TextContent(<<"my_reply: ">> \o thought.action_content.text)]

ToolResultMessage(tool_result) ==
    IF tool_result.success
    THEN \* f"工具'{tool_name}'执行成功，结果为：{result}"
         [role |-> "user",
          content |-> TextContent(<<"tool ", tool_result.tool_name, " succeeded: ">>
                                  \o StrOf(tool_result.result))]
    ELSE \* f"工具'{tool_name}'执行失败，错误信息：{error}"
         [role |-> "user",
          content |-> TextContent(<<"tool ", tool_result.tool_name, " failed: ">>
                                  \o StrOfOptional(tool_result.error))]

\* "你是一个智能助理的决策引擎..." or the content of prompts/system_prompt.txt
SystemPrompt == [role |-> "system", content |-> TextContent(<<"system_prompt">>)]

\* a request that puts the history after the messages of the turn
BuildMessagesHistoryLast(ctx) ==
    <<SystemPrompt>>
    \o [i \in 1..Len(ctx.thought_chain) |-> ThoughtMessage(ctx.thought_chain[i])]
    \o [i \in 1..Len(ctx.tool_results) |-> ToolResultMessage(ctx.tool_results[i])]
    \o <<[role |-> "user", content |-> TextContent(ctx.user_input)]>>
    \o ctx.conversation_history

\* lines 82-138: the system prompt, the history, one message per thought of
\* the trail, one per tool result, and the user input
BuildMessages(ctx) ==
    <<SystemPrompt>>
    \o ctx.conversation_history
    \o [i \in 1..Len(ctx.thought_chain) |-> ThoughtMessage(ctx.thought_chain[i])]
    \o [i \in 1..Len(ctx.tool_results) |-> ToolResultMessage(ctx.tool_results[i])]
    \o (IF ctx.thought_chain = <<>> \/ ctx.tool_results # <<>>
        THEN IF ctx.tool_results # <<>>
             THEN \* f"基于上述工具执行结果，请决定下一步的行动。原始用户请求是：{user_input}"
                  <<[role |-> "user",
                     content |-> TextContent(<<"decide_next; original request: ">>
                                             \o ctx.user_input)]>>
             ELSE <<[role |-> "user", content |-> TextContent(ctx.user_input)]>>
        ELSE <<>>)

(***************************************************************************)
(* ConversationManager.save_to_file / load_from_file                       *)
(***************************************************************************)
\* max_history_length: int = 20, the capacity of ConversationManager()
DefaultMaxHistoryLength == 20

\* the readings of datetime.now() that occur in the model
Times == (0 - DefaultMaxHistoryLength - 2)..(MaxAppends + 2 * MaxTurns + 2)

\* datetime.isoformat() and datetime.fromisoformat() of such a reading
IsoFormat(t) == ToString(t)
IsoTexts == {IsoFormat(t) : t \in Times}
IsIsoText(s) == s \in IsoTexts
IsoReadings == [s \in IsoTexts |-> CHOOSE t \in Times : IsoFormat(t) = s]
FromIsoFormat(s) == IsoReadings[s]

\* _generate_conversation_id: f"conv_{datetime.now().strftime(...)}"
GenerateConversationId(now) == "conv_" \o ToString(now)

\* MessageRole(value) is defined for these values
RoleValues == {"user", "assistant", "system"}

\* JSON of an Optional[str]: null or a string; and the value json.load
\* gives back for it
JLabel(o) == IF o.some THEN JStr(o.label) ELSE JNull
LabelOf(j) == IF j.t = "str" THEN SomeLabel(j.s) ELSE NoLabel
JText(o) == IF o.some THEN [t |-> "str", text |-> o.text] ELSE [t |-> "null", text |-> <<>>]
TextOf(j) == IF j.t = "str" THEN SomeText(j.text) ELSE NoText

\* JSON of Message.metadata and the dict json.load gives back
EncodeMetadata(md) ==
    [keys |-> md.keys, action_type |-> JLabel(md.action_type),
     tool_results |-> md.tool_results]
DecodeMetadata(j) ==
    [keys |-> j.keys, action_type |-> LabelOf(j.action_type),
     tool_results |-> j.tool_results]

\* one element of data["messages"]; has |-> the keys that are present
MessageObject(has, role, content, timestamp, metadata) ==
    [has |-> has, role |-> role, content |-> content, timestamp |-> timestamp,
     metadata |-> metadata]
MessageKeys == {"role", "content", "timestamp", "metadata"}

\* a save that leaves the metadata of the messages out
EncodeMessageNoMetadata(m) ==
    MessageObject(MessageKeys \ {"metadata"}, m.role, m.content, IsoFormat(m.timestamp),
                  EncodeMetadata(NoMetadata))

EncodeMessage(m) ==
    MessageObject(MessageKeys, m.role, m.content, IsoFormat(m.timestamp),
                  EncodeMetadata(m.metadata))

\* data["context"]; has |-> the keys that are present
ContextObject(has, results, intent, action, summary) ==
    [has |-> has, last_tool_results |-> results, last_user_intent |-> intent,
     last_assistant_action |-> action, context_summary |-> summary]
ContextKeys ==
    {"last_tool_results", "last_user_intent", "last_assistant_action", "context_summary"}
EncodeContext(ctx) ==
    ContextObject(ContextKeys, ctx.last_tool_results, JText(ctx.last_user_intent),
                  JLabel(ctx.last_assistant_action), JText(ctx.context_summary))
EmptyContextObject == ContextObject({}, <<>>, JText(NoText), JNull, JText(NoText))

\* what is at a file path: nothing ("missing"), a text that is not JSON
\* ("invalid"), a JSON value that is not an object ("list"), or a JSON
\* object ("doc"); has |-> the keys of the object that are present
File(kind, has, id, start, msgs, ctx) ==
    [kind |-> kind, has |-> has, conversation_id |-> id, start_time |-> start,
     messages |-> msgs, context |-> ctx]
MissingFile == File("missing", {}, "", "", <<>>, EmptyContextObject)
InvalidFile == File("invalid", {}, "", "", <<>>, EmptyContextObject)
ListFile == File("list", {}, "", "", <<>>, EmptyContextObject)
DocumentKeys == {"conversation_id", "start_time", "messages", "context"}

\* a ConversationManager as a value
Manager(msgs, ctx, cap, id, start) ==
    [messages |-> msgs, context |-> ctx, max_history_length |-> cap,
     conversation_id |-> id, start_time |-> start]

\* ConversationManager(): built at the clock reading now
FreshManager(now) ==
    Manager(<<>>, EmptyContext, DefaultMaxHistoryLength, GenerateConversationId(now), now)

\* json.dump accepts the stored messages: texts and dicts, not objects
Encodable(msgs) == \A i \in 1..Len(msgs) : msgs[i].content.tag \in {"text", "dict"}

\* lines 220-238: the data save_to_file writes
SaveData(m) ==
    File("doc", DocumentKeys, m.conversation_id, IsoFormat(m.start_time),
         [i \in 1..Len(m.messages) |-> EncodeMessage(m.messages[i])],
         EncodeContext(m.context))

\* the fields lines 264-271 read with data[...] and msg_data[...] are there
HasRequiredFields(f) ==
    /\ f.kind = "doc"
    /\ {"conversation_id", "start_time", "messages"} \subseteq f.has
    /\ \A i \in 1..Len(f.messages) :
          {"role", "content", "timestamp"} \subseteq f.messages[i].has

\* lines 268-273 raise for the message object j (KeyError, ValueError)
MessageError(j) ==
    \/ ~({"role", "content", "timestamp"} \subseteq j.has)
    \/ j.role \notin RoleValues
    \/ ~IsIsoText(j.timestamp)

\* lines 260-282 raise for the file f
LoadError(f) ==
    \/ f.kind # "doc"
    \/ ~({"conversation_id", "start_time", "messages"} \subseteq f.has)
    \/ ~IsIsoText(f.start_time)
    \/ \E i \in 1..Len(f.messages) : MessageError(f.messages[i])

\* lines 268-273: the Message built from a message object
DecodeMessage(j) ==
    Message(j.role, j.content, FromIsoFormat(j.timestamp),
            IF "metadata" \in j.has THEN DecodeMetadata(j.metadata) ELSE NoMetadata)

\* lines 276-282: the ConversationContext built from data.get("context", {})
DecodeContext(f) ==
    LET c == IF "context" \in f.has THEN f.context ELSE EmptyContextObject
    IN  [last_tool_results |->
            IF "last_tool_results" \in c.has THEN c.last_tool_results ELSE <<>>,
         last_user_intent |->
            IF "last_user_intent" \in c.has THEN TextOf(c.last_user_intent) ELSE NoText,
         last_assistant_action |->
            IF "last_assistant_action" \in c.has THEN LabelOf(c.last_assistant_action)
            ELSE NoLabel,
         context_summary |->
            IF "context_summary" \in c.has THEN TextOf(c.context_summary) ELSE NoText]

\* the longest prefix of the message objects that decodes
RECURSIVE GoodPrefix(_)
GoodPrefix(js) ==
    IF js = <<>> \/ MessageError(js[1]) THEN <<>>
    ELSE <<js[1]>> \o GoodPrefix(Tail(js))

\* a load that hands out the manager as far as it was filled when a
\* message object failed to decode
LoadFromFilePartial(f, now) ==
    IF f.kind = "doc" /\ {"conversation_id", "start_time", "messages"} \subseteq f.has
       /\ IsIsoText(f.start_time)
    THEN LET good == GoodPrefix(f.messages)
         IN  Manager([i \in 1..Len(good) |-> DecodeMessage(good[i])],
                     IF LoadError(f) THEN EmptyContext ELSE DecodeContext(f),
                     DefaultMaxHistoryLength, f.conversation_id,
                     FromIsoFormat(f.start_time))
    ELSE FreshManager(now)

\* load_from_file(filepath), f being what is at filepath: the manager it
\* returns; its messages are appended to the list without add_message
LoadFromFile(f, now) ==
    IF LoadError(f) THEN FreshManager(now)
    ELSE Manager([i \in 1..Len(f.messages) |-> DecodeMessage(f.messages[i])],
                 DecodeContext(f), DefaultMaxHistoryLength, f.conversation_id,
                 FromIsoFormat(f.start_time))

(***************************************************************************)
(* Inputs of the model                                                     *)
(***************************************************************************)
\* user inputs, one token per character
UserInputs == {<<"1", "0", "+", "5">>}
\* a user input of 101 characters
LongInput == [i \in 1..101 |-> "x"]

\* the history argument of start_interaction: None or a given list
NoHistory == [given |-> FALSE, msgs |-> <<>>]
GivenHistory(h) == [given |-> TRUE, msgs |-> h]
Histories ==
    {NoHistory, GivenHistory(<<[role |-> "user", content |-> TextContent(<<"earlier">>)]>>)}

\* tool calls of the model
CalcAdd == ToolCall("calculator", AddParams, <<"why">>)
CalcDivideByZero ==
    ToolCall("calculator",
             Params({<<"a", IntVal(10)>>, <<"b", IntVal(0)>>,
                     <<"operation", StrVal(<<"divide">>)>>}), <<"why">>)
CalcMissingArgs == ToolCall("calculator", Params({<<"a", IntVal(10)>>}), <<"why">>)
CalcNoMapping == ToolCall("calculator", NotAMapping, <<"why">>)
MossCall == ToolCall("moss", Params({<<"task", StrVal(<<"job">>)>>}), <<"why">>)
MailCall ==
    ToolCall("mail_sender",
             Params({<<"to_addrs", StrVal(<<"a@b">>)>>, <<"subject", StrVal(<<"s">>)>>,
                     <<"body", StrVal(<<"b">>)>>}), <<"why">>)
MailCallBadAddrs ==
    ToolCall("mail_sender",
             Params({<<"to_addrs", IntVal(5)>>, <<"subject", StrVal(<<"s">>)>>,
                     <<"body", StrVal(<<"b">>)>>}), <<"why">>)
MailReceiverCall == ToolCall("mail_receiver", Params({}), <<"why">>)
MailReceiverExtraArg ==
    ToolCall("mail_receiver", Params({<<"folder", StrVal(<<"inbox">>)>>}), <<"why">>)
SchedulerList ==
    ToolCall("scheduler_tool", Params({<<"action", StrVal(<<"list">>)>>}), <<"why">>)
SchedulerRemoveNoId ==
    ToolCall("scheduler_tool", Params({<<"action", StrVal(<<"remove">>)>>}), <<"why">>)
UnknownCall == ToolCall("unknown_tool", Params({}), <<"why">>)

\* the tool calls the dispatcher is given in the model
ToolCalls ==
    {CalcAdd, CalcDivideByZero, CalcMissingArgs, CalcNoMapping, MossCall, MailCall,
     MailCallBadAddrs, MailReceiverCall, MailReceiverExtraArg, SchedulerList,
     SchedulerRemoveNoId, UnknownCall}

\* the tool calls asked for during a turn of the model
TurnToolCalls == {CalcAdd, CalcMissingArgs, MailCall, UnknownCall}

\* the Thoughts a ThinkingEngine that honours the Thought type returns
Thoughts ==
    {Thought(k, TextContent(<<"answer">>), 80, <<"r">>) :
        k \in {"DIRECT_REPLY", "ASK_USER", "DELEGATE"}}
    \cup {Thought("CALL_TOOL", c, 80, <<"r">>) : c \in TurnToolCalls}

\* the answers the LLM gives during a turn of the model
TurnLLMResults ==
    {r \in LLMResults :
        r.content \in {<<"t", "{", "reply", "}">>, <<"t", "{", "tool", "}">>,
                       <<"t", "{", "tool_jobs", "}">>,
                       <<"t", "{", "tool_unknown", "}">>, <<"t", "{", "tool_text", "}">>,
                       <<"llm_call_error: ", "{", "code", "}">>}
        \/ r = LLMResult(<<>>, <<"plain">>)}

(***************************************************************************)
(* State                                                                   *)
(***************************************************************************)
VARIABLES
    \* Coordinator: max_iterations, the tools of its DefaultToolExecutor, and
    \* which ThinkingEngine it was built with ("abstract" or "llm")
    max_iterations, registry, producer,
    \* ConversationManager of the coordinator
    messages, cm_context, max_history_length, conversation_id, start_time,
    \* datetime.now(), as a count of the messages created so far
    clock,
    \* start_interaction: its position, its arguments, its InteractionContext
    \* and the value it returns
    pc, user_input, use_conversation_manager, conversation_history,
    tool_results, thought_chain, response, turns,
    \* observations of the turn: the number of think calls, the dispatcher
    \* calls in order, the tool_results each think was given, and the
    \* request the last LLM think sent
    think_calls, exec_log, seen_results, llm_request,
    \* the messages the turn has appended to the store, in order
    store_appends,
    \* what is at the path save_to_file and load_from_file are called with,
    \* and the manager whose save wrote it (NoManager when none did)
    file, saved,
    \* observations of a run of ConversationManager calls: the last call
    \* (whether it failed, whether it raised, the kind of file it read or
    \* wrote, whether that is the file at the path of save_to_file and
    \* whether it has every field load_from_file reads), and
    \* the messages appended since the store was last empty
    last_call, appended,
    \* observations of a run of _parse_llm_response calls
    parse_log,
    \* what the last introspection call on the DefaultToolExecutor gave, and
    \* the tool calls run by scheduler jobs so far
    tools_info, job_log

config == <<max_iterations, registry, producer>>
store == <<messages, cm_context, max_history_length, conversation_id, start_time, clock>>
turn == <<pc, user_input, use_conversation_manager, conversation_history,
          tool_results, thought_chain, response, turns>>
observed == <<think_calls, exec_log, seen_results, llm_request, store_appends>>
aside == <<file, saved, last_call, appended, parse_log>>
dispatcher == <<tools_info, job_log>>
vars == <<config, store, turn, observed, aside, dispatcher>>

\* the values of file, saved, last_call, appended and parse_log before any
\* call that sets them
NoManager == Manager(<<>>, EmptyContext, 0, "", 0)
Call(op, failed, raised, arg) ==
    [op |-> op, failed |-> failed, raised |-> raised, arg |-> arg]
FileSeen(kind, own, complete) == [kind |-> kind, own |-> own, complete |-> complete]
NoFile == FileSeen("none", FALSE, FALSE)
NoCall == Call("none", FALSE, FALSE, NoFile)
Appended(fresh, log) == [fresh |-> fresh, log |-> log]
\* a call that reads the store: its argument and the list it returned
Read(op, count, result) ==
    [op |-> op, failed |-> FALSE, raised |-> FALSE, arg |-> NoFile,
     count |-> count, result |-> result]
\* the result of a call of a method of the executor: the dict it returned,
\* or AttributeError when the executor has no such method
Info(op, raised, info) == [op |-> op, raised |-> raised, info |-> info]
NoInfo == Info("none", FALSE, <<>>)
DispatcherInit ==
    /\ tools_info = NoInfo
    /\ job_log = <<>>
AsideInit ==
    /\ file = MissingFile
    /\ saved = NoManager
    /\ last_call = NoCall
    /\ appended = Appended(TRUE, <<>>)
    /\ parse_log = <<>>
    /\ DispatcherInit

\* the InteractionContext of the running turn
Context ==
    [user_input |-> user_input, conversation_history |-> conversation_history,
     tool_results |-> tool_results, thought_chain |-> thought_chain,
     max_iterations |-> max_iterations]

\* a loop condition that allows one iteration too many
HasReachedMaxIterationsLate(chain) == Len(chain) > max_iterations

\* add_thought that does not keep the thought
AddThoughtLost(chain, thought) == chain

\* add_tool_result that puts the newest result first
AddToolResultFirst(results, result) == <<result>> \o results

\* InteractionContext.current_iteration, has_reached_max_iterations
CurrentIteration(chain) == Len(chain)
HasReachedMaxIterations(chain) == CurrentIteration(chain) >= max_iterations

\* InteractionContext.add_thought, add_tool_result
AddThought(chain, thought) == Append(chain, thought)
AddToolResult(results, result) == Append(results, result)

(***************************************************************************)
(* Coordinator.start_interaction                                           *)
(***************************************************************************)
Last(q) == q[Len(q)]

\* a finalization that updates the context whether a decision was made or
\* not
FinalizeUpdatesContext(resp, chain, results) ==
    /\ response' = resp
    /\ pc' = "done"
    /\ IF use_conversation_manager
       THEN LET message ==
                    Message("assistant", resp, clock,
                        [keys |-> {"action_type", "tool_results"},
                         action_type |->
                            IF chain # <<>>
                            THEN SomeLabel(StrOfActionType(Last(chain).action_type))
                            ELSE NoLabel,
                         tool_results |-> MetaSummary(results)])
            IN  /\ messages' = AddMessage(messages, max_history_length, message)
                /\ store_appends' = Append(store_appends, message)
                /\ clock' = clock + 1
                /\ cm_context' =
                     UpdateContext(cm_context,
                         Given(ContextSummary(results)),
                         Given(Prefix(user_input, 100)),
                         IF chain # <<>>
                         THEN Given(StrOfActionType(Last(chain).action_type))
                         ELSE None,
                         None)
       ELSE UNCHANGED <<messages, clock, cm_context, store_appends>>

\* a finalization that writes to the store whether it is enabled or not
FinalizeAlwaysStores(resp, chain, results) ==
    /\ response' = resp
    /\ pc' = "done"
    /\ LET message == Message("assistant", resp, clock, NoMetadata)
       IN  /\ messages' = AddMessage(messages, max_history_length, message)
           /\ store_appends' = Append(store_appends, message)
           /\ clock' = clock + 1
           /\ cm_context' = cm_context

\* _finalize_response(resp, context, use_conversation_manager) with the
\* decision and outcome trails as they are when it is called
Finalize(resp, chain, results) ==
    /\ response' = resp
    /\ pc' = "done"
    /\ IF use_conversation_manager
       THEN LET message ==
                    Message("assistant", resp, clock,
                        [keys |-> {"action_type", "tool_results"},
                         action_type |->
                            IF chain # <<>>
                            THEN SomeLabel(StrOfActionType(Last(chain).action_type))
                            ELSE NoLabel,
                         tool_results |-> MetaSummary(results)])
            IN  /\ messages' = AddMessage(messages, max_history_length, message)
                /\ store_appends' = Append(store_appends, message)
                /\ clock' = clock + 1
                /\ cm_context' =
                     IF chain # <<>>
                     THEN UpdateContext(cm_context,
                              Given(ContextSummary(results)),
                              Given(Prefix(user_input, 100)),
                              Given(StrOfActionType(Last(chain).action_type)),
                              None)
                     ELSE cm_context
       ELSE UNCHANGED <<messages, clock, cm_context, store_appends>>

\* lines 133-150: the user message is appended, the history snapshot is
\* taken and the InteractionContext is built with empty trails
EnterInteraction(input, history, use) ==
    /\ pc = "idle"
    /\ user_input' = input
    /\ use_conversation_manager' = use
    /\ IF use
       THEN /\ messages' = AddMessage(messages, max_history_length,
                               Message("user", TextContent(input), clock, NoMetadata))
            /\ store_appends' = <<Message("user", TextContent(input), clock, NoMetadata)>>
            /\ clock' = clock + 1
       ELSE /\ store_appends' = <<>>
            /\ UNCHANGED <<messages, clock>>
    /\ conversation_history' =
         IF ~history.given /\ use THEN GetConversationHistory(messages')
         ELSE history.msgs
    /\ tool_results' = <<>>
    /\ thought_chain' = <<>>
    /\ pc' = "loop"
    /\ think_calls' = 0
    /\ exec_log' = <<>>
    /\ seen_results' = <<>>
    /\ llm_request' = <<>>
    /\ UNCHANGED <<config, cm_context, max_history_length, conversation_id, start_time,
                   response, turns, aside, dispatcher>>

\* start_interaction(user_input, history, use_conversation_manager), one of
\* the MaxTurns calls made against a coordinator
StartInteraction(input, history, use) ==
    /\ turns < MaxTurns
    /\ EnterInteraction(input, history, use)

\* a loop without the DELEGATE branch
IsTerminalNoDelegate(kind) == kind \in {"DIRECT_REPLY", "ASK_USER"}

\* the branches of the loop that return: DIRECT_REPLY, ASK_USER, DELEGATE
IsTerminal(kind) == kind \in {"DIRECT_REPLY", "ASK_USER", "DELEGATE"}

\* lines 155-185 up to the dispatcher call: the thought is appended, a
\* DIRECT_REPLY, ASK_USER or DELEGATE thought finalizes the turn, a
\* CALL_TOOL thought goes on to the dispatcher
AfterThink(thought) ==
    /\ thought_chain' = AddThought(thought_chain, thought)
    /\ think_calls' = think_calls + 1
    /\ seen_results' = Append(seen_results, tool_results)
    /\ IF IsTerminal(thought.action_type)
       THEN Finalize(thought.action_content, thought_chain', tool_results)
       ELSE /\ pc' = IF thought.action_type = "CALL_TOOL" THEN "exec" ELSE "loop"
            /\ UNCHANGED <<messages, clock, cm_context, response, store_appends>>
    /\ UNCHANGED <<config, max_history_length, conversation_id, start_time,
                   user_input, use_conversation_manager, conversation_history,
                   tool_results, turns, exec_log, aside, dispatcher>>

\* one loop iteration with a ThinkingEngine that returns any typed Thought
Think(thought) ==
    /\ pc = "loop"
    /\ producer = "abstract"
    /\ ~HasReachedMaxIterations(thought_chain)
    /\ llm_request' = llm_request
    /\ AfterThink(thought)

\* one loop iteration with LLMThinkingEngine.think: the request is built,
\* the LLM answers with r, the answer is parsed
LLMThink(r) ==
    /\ pc = "loop"
    /\ producer = "llm"
    /\ ~HasReachedMaxIterations(thought_chain)
    /\ llm_request' = BuildMessages(Context)
    /\ AfterThink(ParseLLMResponse(r.content, r.thinking))

\* a dispatcher call that is given the payload of the turn's first decision
PendingToolCallFirst(chain) == chain[1].action_content

\* line 165: tool_call = thought.action_content, thought being the decision
\* just appended to the trail
PendingToolCall(chain) == Last(chain).action_content

\* lines 165-177: the dispatcher runs the tool call of the last thought,
\* the called tool behaving as b; a failed outcome finalizes the turn
ExecuteTool(b) ==
    /\ pc = "exec"
    /\ LET tool_call == PendingToolCall(thought_chain)
           out == Execute(registry, tool_call, b)
       IN  /\ b \in BehavioursFor(registry, tool_call)
           /\ exec_log' = Append(exec_log, [request |-> tool_call, behaviour |-> b, out |-> out])
           /\ IF out.raised
              THEN /\ pc' = "raised"
                   /\ UNCHANGED <<tool_results, messages, clock, cm_context, response,
                                  store_appends>>
              ELSE /\ tool_results' = AddToolResult(tool_results, out.res)
                   /\ IF ~out.res.success
                      THEN Finalize(FailureMessage(out.res), thought_chain, tool_results')
                      ELSE /\ pc' = "loop"
                           /\ UNCHANGED <<messages, clock, cm_context, response,
                                          store_appends>>
    /\ UNCHANGED <<config, max_history_length, conversation_id, start_time,
                   user_input, use_conversation_manager, conversation_history,
                   thought_chain, turns, think_calls, seen_results, llm_request, aside,
                   dispatcher>>

\* lines 187-192: the loop condition fails without a terminal thought
BudgetExceeded ==
    /\ pc = "loop"
    /\ HasReachedMaxIterations(thought_chain)
    /\ Finalize(BudgetMessage, thought_chain, tool_results)
    /\ UNCHANGED <<config, max_history_length, conversation_id, start_time,
                   user_input, use_conversation_manager, conversation_history,
                   tool_results, thought_chain, turns, think_calls, exec_log,
                   seen_results, llm_request, aside, dispatcher>>

\* start_interaction has returned or raised; its InteractionContext is
\* gone and the caller (the loop of jarvis.main) goes on to the next input
NextTurn ==
    /\ pc \in {"done", "raised"}
    /\ pc' = "idle"
    /\ turns' = turns + 1
    /\ user_input' = <<>>
    /\ conversation_history' = <<>>
    /\ tool_results' = <<>>
    /\ thought_chain' = <<>>
    /\ response' = TextContent(<<>>)
    /\ think_calls' = 0
    /\ exec_log' = <<>>
    /\ seen_results' = <<>>
    /\ llm_request' = <<>>
    /\ store_appends' = <<>>
    /\ UNCHANGED <<config, store, use_conversation_manager, aside, dispatcher>>

\* Coordinator(thinking_engine, DefaultToolExecutor(), max_iterations,
\* ConversationManager(max_history_length))
Init ==
    /\ max_iterations \in 0..MaxIterations
    /\ registry = ToolNames
    /\ producer \in {"abstract", "llm"}
    /\ messages = <<>>
    /\ cm_context = EmptyContext
    /\ max_history_length \in 1..MaxHistory
    /\ conversation_id = "conv_0"
    /\ start_time = 0
    /\ clock = 1
    /\ pc = "idle"
    /\ user_input = <<>>
    /\ use_conversation_manager = TRUE
    /\ conversation_history = <<>>
    /\ tool_results = <<>>
    /\ thought_chain = <<>>
    /\ response = TextContent(<<>>)
    /\ turns = 0
    /\ think_calls = 0
    /\ exec_log = <<>>
    /\ seen_results = <<>>
    /\ llm_request = <<>>
    /\ store_appends = <<>>
    /\ AsideInit

AllBehaviours ==
    UNION {BehavioursFor(ToolNames, c) : c \in ToolCalls} \cup {NotCalled}

Next ==
    \/ \E input \in UserInputs, history \in Histories, use \in BOOLEAN :
          StartInteraction(input, history, use)
    \/ \E thought \in Thoughts : Think(thought)
    \/ \E r \in TurnLLMResults : LLMThink(r)
    \/ \E b \in AllBehaviours : ExecuteTool(b)
    \/ BudgetExceeded
    \/ NextTurn

Spec == Init /\ [][Next]_vars

(***************************************************************************)
(* The coordinator with a ThinkingEngine that returns any typed Thought,   *)
(* called as jarvis.main calls it (no history argument), with user inputs  *)
(* of any length                                                           *)
(***************************************************************************)
InitAbstract == Init /\ producer = "abstract"

NextAbstract ==
    \/ \E input \in UserInputs \cup {LongInput}, use \in BOOLEAN :
          StartInteraction(input, NoHistory, use)
    \/ \E thought \in Thoughts : Think(thought)
    \/ \E b \in AllBehaviours : ExecuteTool(b)
    \/ BudgetExceeded
    \/ NextTurn

SpecAbstract == InitAbstract /\ [][NextAbstract]_vars

(***************************************************************************)
(* A turn of the coordinator while jobs of the scheduler fire: a job added *)
(* by SchedulerTool.execute(action="add") runs, in a worker thread of the  *)
(* scheduler, the execute of a new instance of the tool class              *)
(***************************************************************************)
\* number of job runs during the turns of one coordinator
MaxJobs == 1

\* the jobs SchedulerTool can add: a module of the tools package with a
\* class named func.capitalize() (tools.Calculator, tools.moss), with the
\* kwargs the job passes to execute
Jobs == {CalcAdd, MossCall}

\* the decisions of the turn that runs beside the jobs
JobTurnThoughts ==
    {Thought("DIRECT_REPLY", TextContent(<<"answer">>), 80, <<"r">>),
     Thought("CALL_TOOL", CalcAdd, 80, <<"r">>)}

\* a job run that leaves its result in the outcome trail of the turn
JobFiresIntoTurn(job, b) ==
    /\ Len(job_log) < MaxJobs
    /\ b \in ToolBehaviours(job.tool_name, job.parameters)
    /\ job_log' = Append(job_log, [job |-> job, behaviour |-> b, at |-> pc])
    /\ tool_results' = Append(tool_results,
                              ToolResult(job.tool_name, b.r.kind = "return", b.r.value, NoText))
    /\ UNCHANGED <<config, store, pc, user_input, use_conversation_manager,
                   conversation_history, thought_chain, response, turns, observed,
                   aside, tools_info>>

\* scheduler_tool.py lines 59-77: the job calls execute_func(*args, **kwargs),
\* the tool behaving as b, at any point of a turn or between turns
JobFires(job, b) ==
    /\ Len(job_log) < MaxJobs
    /\ b \in ToolBehaviours(job.tool_name, job.parameters)
    /\ job_log' = Append(job_log, [job |-> job, behaviour |-> b, at |-> pc])
    /\ UNCHANGED <<config, store, turn, observed, aside, tools_info>>

NextJobs ==
    \/ \E input \in UserInputs : StartInteraction(input, NoHistory, TRUE)
    \/ \E thought \in JobTurnThoughts : Think(thought)
    \/ \E b \in AllBehaviours : ExecuteTool(b)
    \/ BudgetExceeded
    \/ NextTurn
    \/ \E job \in Jobs, b \in AllBehaviours : JobFires(job, b)

SpecJobs == InitAbstract /\ [][NextJobs]_vars

(***************************************************************************)
(* One turn whose decisions call the tools that catch their own failures:  *)
(* Calculator.execute and SchedulerTool.execute return an error value from *)
(* their except clause                                                     *)
(***************************************************************************)
CalcUnsupported ==
    ToolCall("calculator",
             Params({<<"a", IntVal(10)>>, <<"b", IntVal(5)>>,
                     <<"operation", StrVal(<<"power">>)>>}), <<"why">>)
SchedulerUnknownAction ==
    ToolCall("scheduler_tool", Params({<<"action", StrVal(<<"pause">>)>>}), <<"why">>)
SchedulerAddNoFunc ==
    ToolCall("scheduler_tool", Params({<<"action", StrVal(<<"add">>)>>}), <<"why">>)
SchedulerRemoveJob ==
    ToolCall("scheduler_tool",
             Params({<<"action", StrVal(<<"remove">>)>>, <<"job_id", StrVal(<<"job1">>)>>}),
             <<"why">>)

\* the tool calls of such a turn: calls whose tool catches a failure, a
\* call that succeeds and a call that fails in the dispatcher
CatchingToolCalls ==
    {CalcAdd, CalcDivideByZero, CalcUnsupported, SchedulerUnknownAction,
     SchedulerAddNoFunc, SchedulerRemoveNoId, SchedulerRemoveJob, UnknownCall}

\* the decisions of such a turn
CatchingThoughts ==
    {Thought("CALL_TOOL", c, 80, <<"r">>) : c \in CatchingToolCalls}
    \cup {Thought("DIRECT_REPLY", TextContent(<<"the result is ", "15">>), 80, <<"r">>),
          Thought("DIRECT_REPLY", TextContent(<<"answer">>), 80, <<"r">>)}

CatchingBehaviours ==
    UNION {BehavioursFor(ToolNames, c) : c \in CatchingToolCalls} \cup {NotCalled}

InitTools ==
    /\ Init
    /\ producer = "abstract"
    /\ max_iterations >= 1
    /\ max_history_length = MaxHistory

NextTools ==
    \/ \E input \in UserInputs : StartInteraction(input, NoHistory, TRUE)
    \/ \E thought \in CatchingThoughts : Think(thought)
    \/ \E b \in CatchingBehaviours : ExecuteTool(b)
    \/ BudgetExceeded

SpecTools == InitTools /\ [][NextTools]_vars

(***************************************************************************)
(* The session jarvis.main runs: turns one after another against one       *)
(* coordinator and one store, each with use_conversation_manager=True and  *)
(* no history argument, the decisions made by LLMThinkingEngine            *)
(***************************************************************************)
\* number of turns of a session
MaxSessionTurns == 2

\* the except branch of _call_llm (lines 201-203): the response content is
\* f"调用LLM时出错：{str(e)}", for an exception whose text has no brace, has
\* braces around a text that is not JSON, and has braces around a JSON object
CallFailures ==
    {LLMResult(<<>>, <<"llm_call_error: ", "timeout">>),
     LLMResult(<<>>, <<"llm_call_error: ", "{", "code", "}">>),
     LLMResult(<<>>, <<"llm_call_error: ", "{", "}">>)}

\* what _call_llm returns during a session: answers of the LLM and failures
SessionLLMResults ==
    {r \in LLMResults :
        r.content \in {<<"t", "{", "reply", "}">>, <<"t", "{", "tool", "}">>,
                       <<"t", "{", "tool_unknown", "}">>, <<"t", "{", "tool_text", "}">>}}
    \cup CallFailures

\* the max_iterations the coordinator of a session is built with
SessionIterations == {0 - 1, 0, 2}

\* the context of a manager on which the caller has called
\* update_context(tool_results=[...], context_summary=...)
GivenContext ==
    UpdateContext(EmptyContext,
        Given(<<[tool_name |-> "calculator", success |-> TRUE, result |-> <<"15">>]>>),
        None, None, Given(<<"summary">>))

\* Coordinator(LLMThinkingEngine(), DefaultToolExecutor(), max_iterations,
\* conversation_manager); the manager is new, or the caller has set its
\* context before
InitSession ==
    /\ max_iterations \in SessionIterations
    /\ registry = ToolNames
    /\ producer = "llm"
    /\ messages = <<>>
    /\ cm_context \in {EmptyContext, GivenContext}
    /\ max_history_length \in (1..MaxHistory) \cup {DefaultMaxHistoryLength}
    /\ conversation_id = "conv_0"
    /\ start_time = 0
    /\ clock = 1
    /\ pc = "idle"
    /\ user_input = <<>>
    /\ use_conversation_manager = TRUE
    /\ conversation_history = <<>>
    /\ tool_results = <<>>
    /\ thought_chain = <<>>
    /\ response = TextContent(<<>>)
    /\ turns = 0
    /\ think_calls = 0
    /\ exec_log = <<>>
    /\ seen_results = <<>>
    /\ llm_request = <<>>
    /\ store_appends = <<>>
    /\ AsideInit

\* jarvis.py lines 142-145: coordinator.start_interaction(user_input,
\* use_conversation_manager=True)
SessionTurn(input) ==
    /\ turns < MaxSessionTurns
    /\ EnterInteraction(input, NoHistory, TRUE)

NextSession ==
    \/ \E input \in UserInputs : SessionTurn(input)
    \/ \E r \in SessionLLMResults : LLMThink(r)
    \/ \E b \in AllBehaviours : ExecuteTool(b)
    \/ BudgetExceeded
    \/ NextTurn

SpecSession == InitSession /\ [][NextSession]_vars

(***************************************************************************)
(* DefaultToolExecutor.execute on its own: calls against one executor      *)
(***************************************************************************)
\* number of execute calls made against one executor
MaxCalls == 2

\* the registries _load_tools can build: every tool module imported, some
\* of them failing to import, none imported
Registries == {ToolNames, {"calculator", "moss"}, {}}

\* what execute is called with: ToolCalls, and a text in place of a ToolCall
Requests == ToolCalls \cup {TextContent(<<"calculator">>)}

InitExec ==
    /\ max_iterations = 0
    /\ registry \in Registries
    /\ producer = "abstract"
    /\ messages = <<>>
    /\ cm_context = EmptyContext
    /\ max_history_length = 1
    /\ conversation_id = "conv_0"
    /\ start_time = 0
    /\ clock = 1
    /\ pc = "dispatch"
    /\ user_input = <<>>
    /\ use_conversation_manager = FALSE
    /\ conversation_history = <<>>
    /\ tool_results = <<>>
    /\ thought_chain = <<>>
    /\ response = TextContent(<<>>)
    /\ turns = 0
    /\ think_calls = 0
    /\ exec_log = <<>>
    /\ seen_results = <<>>
    /\ llm_request = <<>>
    /\ store_appends = <<>>
    /\ AsideInit

\* one call of execute(tool_call), the called tool behaving as b
Dispatch(tool_call, b) ==
    /\ pc = "dispatch"
    /\ Len(exec_log) < MaxCalls
    /\ b \in BehavioursFor(registry, tool_call)
    /\ exec_log' = Append(exec_log,
                      [request |-> tool_call, behaviour |-> b,
                       out |-> Execute(registry, tool_call, b)])
    /\ UNCHANGED <<config, store, turn, think_calls, seen_results, llm_request,
                   store_appends, aside, dispatcher>>

\* tool_executor.<op>(), op being list_tools or get_all_tools_info: the
\* call jarvis.main makes at line 36, without a hasattr test
Introspect(op) ==
    /\ pc = "dispatch"
    /\ tools_info' = IF ~HasAttr(op) THEN Info(op, TRUE, <<>>)
                      ELSE Info(op, FALSE, ListTools(registry))
    /\ UNCHANGED <<config, store, turn, observed, aside, job_log>>

NextExec ==
    \/ \E tool_call \in Requests, b \in AllBehaviours : Dispatch(tool_call, b)
    \/ \E op \in {"list_tools", "get_all_tools_info"} : Introspect(op)

SpecExec == InitExec /\ [][NextExec]_vars

(***************************************************************************)
(* ConversationManager on its own: calls against the manager a caller holds *)
(***************************************************************************)
\* the manager held by the caller
StoreNow == Manager(messages, cm_context, max_history_length, conversation_id, start_time)

\* the (role, content, metadata) add_message is called with: an assistant
\* message as _finalize_response writes it, and a content that json.dump
\* cannot encode
StoreMessages ==
    {<<"assistant", TextContent(<<"ok">>),
       [keys |-> {"action_type", "tool_results"},
        action_type |-> SomeLabel(StrOfActionType("DIRECT_REPLY")),
        tool_results |-> <<[tool |-> "calculator", success |-> TRUE]>>]>>,
     <<"system", OtherContent(<<"object">>), NoMetadata>>}

\* the arguments update_context is called with
ContextArgs ==
    {<<Given(<<[tool_name |-> "calculator", success |-> TRUE, result |-> <<"15">>]>>),
       Given(<<"hi">>), Given(StrOfActionType("CALL_TOOL")), None>>,
     <<None, None, None, Given(<<"summary">>)>>,
     <<None, None, None, None>>}

\* count: int = 10, the count of get_recent_messages()
DefaultCount == 10

\* a store of capacity DefaultMaxHistoryLength + 1 that was filled to its
\* capacity, one message per clock reading, before the run starts
FilledMessages ==
    [i \in 1..(DefaultMaxHistoryLength + 1) |->
        Message(IF i % 2 = 1 THEN "user" ELSE "assistant", TextContent(<<"m">>),
                i - DefaultMaxHistoryLength - 2, NoMetadata)]

\* files that were not written by save_to_file: documents with a field
\* missing or ill-formed, and a well-formed document without the optional
\* fields
GoodObject == MessageObject(MessageKeys, "user", TextContent(<<"hi">>), "0",
                            EncodeMetadata(NoMetadata))
BareObject == MessageObject({"role", "content", "timestamp"}, "assistant",
                            TextContent(<<"ok">>), "0", EncodeMetadata(NoMetadata))
ForeignDocument(has, start, msgs) ==
    File("doc", has, "conv_x", start, msgs, EncodeContext(EmptyContext))
ForeignFiles ==
    {MissingFile, InvalidFile, ListFile,
     ForeignDocument(DocumentKeys \ {"conversation_id"}, "0", <<GoodObject>>),
     ForeignDocument(DocumentKeys \ {"start_time"}, "0", <<GoodObject>>),
     ForeignDocument(DocumentKeys \ {"messages"}, "0", <<>>),
     ForeignDocument(DocumentKeys, "yesterday", <<GoodObject>>),
     ForeignDocument(DocumentKeys, "0", <<GoodObject, [GoodObject EXCEPT !.role = "tool"]>>),
     ForeignDocument(DocumentKeys, "0", <<GoodObject, [GoodObject EXCEPT !.timestamp = "now"]>>),
     ForeignDocument(DocumentKeys \ {"context"}, "0", <<GoodObject, BareObject>>)}
    \cup {ForeignDocument(DocumentKeys, "0",
              <<GoodObject, [GoodObject EXCEPT !.has = MessageKeys \ {k}]>>) :
          k \in {"role", "content", "timestamp"}}

InitStore ==
    /\ max_iterations = 0
    /\ registry = {}
    /\ producer = "abstract"
    /\ \/ /\ max_history_length \in 0..MaxHistory
          /\ messages = <<>>
          /\ start_time = 0
       \/ /\ max_history_length = DefaultMaxHistoryLength + 1
          /\ messages = FilledMessages
          /\ start_time = 0 - DefaultMaxHistoryLength - 2
    /\ conversation_id = GenerateConversationId(start_time)
    /\ cm_context = EmptyContext
    /\ clock = 1
    /\ pc = "store"
    /\ user_input = <<>>
    /\ use_conversation_manager = FALSE
    /\ conversation_history = <<>>
    /\ tool_results = <<>>
    /\ thought_chain = <<>>
    /\ response = TextContent(<<>>)
    /\ turns = 0
    /\ think_calls = 0
    /\ exec_log = <<>>
    /\ seen_results = <<>>
    /\ llm_request = <<>>
    /\ store_appends = <<>>
    /\ file = MissingFile
    /\ saved = NoManager
    /\ last_call = NoCall
    /\ appended = Appended(TRUE, messages)
    /\ parse_log = <<>>
    /\ DispatcherInit

\* add_message(role, content, metadata)
AddMessageCall(role, content, metadata) ==
    /\ pc = "store"
    /\ clock <= MaxAppends
    /\ LET message == Message(role, content, clock, metadata)
       IN  /\ messages' = AddMessage(messages, max_history_length, message)
           /\ appended' = Appended(appended.fresh, Append(appended.log, message))
    /\ clock' = clock + 1
    /\ last_call' = Call("add_message", FALSE, FALSE, NoFile)
    /\ UNCHANGED <<config, cm_context, max_history_length, conversation_id, start_time,
                   turn, observed, file, saved, parse_log, dispatcher>>

\* recent = get_recent_messages(count)
GetRecentMessagesCall(count) ==
    /\ pc = "store"
    /\ last_call' = Read("get_recent_messages", count, GetRecentMessages(messages, count))
    /\ UNCHANGED <<config, store, turn, observed, file, saved, appended, parse_log,
                   dispatcher>>

\* a clear_history that starts a new session: new id and start time
ClearHistoryNewSession ==
    /\ pc = "store"
    /\ messages' = <<>>
    /\ cm_context' = EmptyContext
    /\ conversation_id' = GenerateConversationId(clock)
    /\ start_time' = clock
    /\ appended' = Appended(TRUE, <<>>)
    /\ last_call' = Call("clear_history", FALSE, FALSE, NoFile)
    /\ UNCHANGED <<config, max_history_length, clock,
                   turn, observed, file, saved, parse_log, dispatcher>>

\* clear_history()
ClearHistory ==
    /\ pc = "store"
    /\ messages' = <<>>
    /\ cm_context' = EmptyContext
    /\ appended' = Appended(TRUE, <<>>)
    /\ last_call' = Call("clear_history", FALSE, FALSE, NoFile)
    /\ UNCHANGED <<config, max_history_length, conversation_id, start_time, clock,
                   turn, observed, file, saved, parse_log, dispatcher>>

\* update_context(tool_results, user_intent, assistant_action, context_summary)
UpdateContextCall(args) ==
    /\ pc = "store"
    /\ cm_context' = UpdateContext(cm_context, args[1], args[2], args[3], args[4])
    /\ last_call' = Call("update_context", FALSE, FALSE, NoFile)
    /\ UNCHANGED <<config, messages, max_history_length, conversation_id, start_time,
                   clock, turn, observed, file, saved, appended, parse_log, dispatcher>>

\* a save_to_file that lets the exception of a failed save reach its caller
SaveRaisesThrough(written) == ~written

\* lines 244-246: `except Exception: pass`, whether the data was written or
\* not nothing is raised
SaveRaises(written) == FALSE

\* save_to_file(filepath); env says whether the path can be opened for
\* writing and whether the write goes through
SaveToFile(env) ==
    /\ pc = "store"
    /\ LET opened == env # "open_fails"
           written == opened /\ env # "write_fails" /\ Encodable(messages)
       IN  /\ file' = IF written THEN SaveData(StoreNow)
                      ELSE IF opened THEN InvalidFile ELSE file
           /\ saved' = IF written THEN StoreNow
                       ELSE IF opened THEN NoManager ELSE saved
           /\ last_call' = Call("save_to_file", ~written, SaveRaises(written),
                                 FileSeen(file'.kind, TRUE, written))
    /\ UNCHANGED <<config, store, turn, observed, appended, parse_log, dispatcher>>

\* manager = ConversationManager.load_from_file(filepath), f being what is
\* at filepath; the caller holds the returned manager from then on
LoadFromFileCall(f) ==
    /\ pc = "store"
    /\ LoadError(f) => clock <= MaxAppends
    /\ LET manager == LoadFromFile(f, clock)
       IN  /\ messages' = manager.messages
           /\ cm_context' = manager.context
           /\ max_history_length' = manager.max_history_length
           /\ conversation_id' = manager.conversation_id
           /\ start_time' = manager.start_time
           /\ appended' = Appended(manager.messages = <<>>, <<>>)
    /\ clock' = IF LoadError(f) THEN clock + 1 ELSE clock
    /\ last_call' = Call("load_from_file", LoadError(f), FALSE,
                          FileSeen(f.kind, f = file, HasRequiredFields(f)))
    /\ UNCHANGED <<config, turn, observed, file, saved, parse_log, dispatcher>>

NextStore ==
    \/ \E m \in StoreMessages : AddMessageCall(m[1], m[2], m[3])
    \/ ClearHistory
    \/ \E args \in ContextArgs : UpdateContextCall(args)
    \/ GetRecentMessagesCall(DefaultCount)
    \/ \E env \in {"ok", "open_fails", "write_fails"} : SaveToFile(env)
    \/ \E f \in {file} \cup ForeignFiles : LoadFromFileCall(f)

SpecStore == InitStore /\ [][NextStore]_vars

(***************************************************************************)
(* ConversationManager on its own: a store that is appended to, cleared    *)
(* and read                                                                *)
(***************************************************************************)
\* the counts get_recent_messages is called with
Counts == (0..(MaxHistory + 1)) \cup {DefaultCount}

NextRead ==
    \/ \E m \in StoreMessages : AddMessageCall(m[1], m[2], m[3])
    \/ ClearHistory
    \/ \E count \in Counts : GetRecentMessagesCall(count)

SpecRead == InitStore /\ [][NextRead]_vars

(***************************************************************************)
(* LLMThinkingEngine._parse_llm_response on its own                        *)
(***************************************************************************)
InitParse ==
    /\ max_iterations = 0
    /\ registry = {}
    /\ producer = "llm"
    /\ messages = <<>>
    /\ cm_context = EmptyContext
    /\ max_history_length = 1
    /\ conversation_id = GenerateConversationId(0)
    /\ start_time = 0
    /\ clock = 1
    /\ pc = "parse"
    /\ user_input = <<>>
    /\ use_conversation_manager = FALSE
    /\ conversation_history = <<>>
    /\ tool_results = <<>>
    /\ thought_chain = <<>>
    /\ response = TextContent(<<>>)
    /\ turns = 0
    /\ think_calls = 0
    /\ exec_log = <<>>
    /\ seen_results = <<>>
    /\ llm_request = <<>>
    /\ store_appends = <<>>
    /\ AsideInit

\* one call of _parse_llm_response(response_content, thinking_content, context)
Parse(r) ==
    /\ pc = "parse"
    /\ Len(parse_log) < MaxParses
    /\ parse_log' = Append(parse_log,
                       [response |-> r.content, thinking |-> r.thinking,
                        thought |-> ParseLLMResponse(r.content, r.thinking)])
    /\ UNCHANGED <<config, store, turn, observed, file, saved, last_call, appended,
                   dispatcher>>

NextParse == \E r \in LLMResults : Parse(r)

SpecParse == InitParse /\ [][NextParse]_vars

(***************************************************************************)
(* Properties of the interaction driver (checked under Spec)               *)
(***************************************************************************)
\* the outcome the i-th dispatcher call of the turn returned
OutcomeOf(i) == exec_log[i].out.res

AllCallTool == \A i \in 1..Len(thought_chain) : thought_chain[i].action_type = "CALL_TOOL"
AllSucceeded ==
    /\ Len(exec_log) = Len(thought_chain)
    /\ \A i \in 1..Len(exec_log) : ~exec_log[i].out.raised /\ OutcomeOf(i).success

\* C1: whatever the decision producer and the tools do, a turn makes at most
\* max_iterations think calls; the decision trail never holds more than
\* max_iterations decisions and holds exactly one decision per think call
\* made, and no iteration runs the dispatcher more than once.
C1_ThinkCallsBounded ==
    /\ think_calls <= max_iterations
    /\ Len(thought_chain) <= max_iterations
    /\ Len(thought_chain) = think_calls
    /\ Len(exec_log) <= think_calls

C1_Witness ==
    /\ pc = "done"
    /\ max_iterations >= 2
    /\ think_calls = max_iterations

C3_TerminalDecisionIsTheResponse ==
    \A i \in 1..Len(thought_chain) :
        thought_chain[i].action_type \in {"DIRECT_REPLY", "ASK_USER", "DELEGATE"} =>
            /\ i = Len(thought_chain)
            /\ pc = "done"
            /\ response = thought_chain[i].action_content
            /\ think_calls = i
            /\ Len(exec_log) = i - 1
            /\ use_conversation_manager =>
                  /\ messages # <<>>
                  /\ Last(messages).role = "assistant"
                  /\ Last(messages).content = thought_chain[i].action_content

C3_Witness ==
    /\ pc = "done"
    /\ Len(thought_chain) = 2
    /\ thought_chain[2].action_type = "DELEGATE"
    /\ Len(exec_log) = 1
    /\ response = thought_chain[2].action_content

\* C4: a failed tool outcome is the last event of its turn: the turn is
\* finished with a failure message that contains the outcome's tool name and
\* its error text, no think call follows and no tool is executed again; a
\* call of an unregistered tool decided by the first think ends the turn
\* after exactly one think call with a response that names the tool.
C4_ToolFailureEndsTheTurn ==
    /\ \A i \in 1..Len(tool_results) :
          ~tool_results[i].success =>
              /\ i = Len(tool_results)
              /\ pc = "done"
              /\ think_calls = i
              /\ Len(thought_chain) = i
              /\ Len(exec_log) = i
              /\ tool_results[i].error.some
              /\ response.tag = "text"
              /\ Contains(response.text, tool_results[i].tool_name)
              /\ ContainsText(response.text, tool_results[i].error.text)
    /\ \A i \in 1..Len(thought_chain) :
          (/\ pc = "done"
           /\ thought_chain[i].action_type = "CALL_TOOL"
           /\ thought_chain[i].action_content.tag = "toolcall"
           /\ thought_chain[i].action_content.tool_name \notin registry) =>
              /\ think_calls = i
              /\ Len(exec_log) = i
              /\ Contains(response.text, thought_chain[i].action_content.tool_name)

C4_Witness ==
    /\ pc = "done"
    /\ think_calls = 1
    /\ Len(tool_results) = 1
    /\ ~tool_results[1].success
    /\ tool_results[1].tool_name = "unknown_tool"
    /\ Contains(response.text, "unknown_tool")

\* C5: after a successful tool execution with budget left the loop goes on
\* to a further think call, and every think call is given exactly the
\* outcomes of the tool executions made before it in the turn, in execution
\* order; the request LLMThinkingEngine builds carries one message per such
\* outcome, in that order.
C5_OutcomesFeedTheNextThink ==
    /\ \A j \in 1..Len(seen_results) :
          /\ Len(seen_results[j]) = j - 1
          /\ \A i \in 1..(j - 1) : seen_results[j][i] = OutcomeOf(i)
    /\ (/\ exec_log # <<>>
        /\ Len(exec_log) = Len(thought_chain)
        /\ ~Last(exec_log).out.raised
        /\ Last(exec_log).out.res.success
        /\ Len(thought_chain) < max_iterations) => pc = "loop"
    /\ (producer = "llm" /\ think_calls >= 1) =>
          /\ Len(llm_request) >= 1 + Len(conversation_history) + 2 * (think_calls - 1)
          /\ \A i \in 1..(think_calls - 1) :
                llm_request[1 + Len(conversation_history) + (think_calls - 1) + i]
                    = ToolResultMessage(OutcomeOf(i))

C5_Witness ==
    /\ producer = "llm"
    /\ think_calls = 3
    /\ Len(seen_results[3]) = 2
    /\ seen_results[3][1] # seen_results[3][2]

\* C6: with LLMThinkingEngine and DefaultToolExecutor no exception leaves
\* start_interaction, whatever the LLM answers and the tools do.
C6_NoExceptionLeavesTheTurn == producer = "llm" => pc # "raised"

(***************************************************************************)
(* Properties of DefaultToolExecutor.execute (checked under SpecExec)      *)
(***************************************************************************)
IsParamError(res) ==
    ~res.success /\ res.error.some /\ res.error.text # <<>>
    /\ res.error.text[1] = "param_error: "
IsExecError(res) ==
    ~res.success /\ res.error.some /\ res.error.text # <<>>
    /\ res.error.text[1] = "exec_error: "

\* C7: execute raises for no ToolCall; when the called tool raises, the
\* outcome has success = false, no result, and a non-empty error text that
\* contains the message of the failure.
C7_ExecuteNeverRaises ==
    \A i \in 1..Len(exec_log) :
        LET e == exec_log[i] IN
        e.request.tag = "toolcall" =>
            /\ ~e.out.raised
            /\ e.behaviour.r.kind = "raise" =>
                  /\ ~e.out.res.success
                  /\ e.out.res.result = NoneVal
                  /\ e.out.res.error.some
                  /\ e.out.res.error.text # <<>>
                  /\ ContainsText(e.out.res.error.text, e.behaviour.r.msg)

C7_Witness ==
    \E i \in 1..Len(exec_log) :
        /\ exec_log[i].behaviour.bound
        /\ exec_log[i].behaviour.r.kind = "raise"
        /\ exec_log[i].behaviour.r.exc = "AttributeError"
        /\ ~exec_log[i].out.raised
        /\ ~exec_log[i].out.res.success

\* C8: execute on a tool name that is not registered returns success = false
\* with an error text that names the requested tool and every registered
\* tool, and no tool is called.
C8_UnknownToolListsTheRegistry ==
    \A i \in 1..Len(exec_log) :
        LET e == exec_log[i] IN
        (e.request.tag = "toolcall" /\ e.request.tool_name \notin registry) =>
            /\ ~e.out.raised
            /\ ~e.out.res.success
            /\ e.out.res.result = NoneVal
            /\ e.out.res.error.some
            /\ Contains(e.out.res.error.text, e.request.tool_name)
            /\ \A n \in registry : Contains(e.out.res.error.text, n)
            /\ e.behaviour = NotCalled

C8_Witness ==
    \E i \in 1..Len(exec_log) :
        /\ exec_log[i].request = UnknownCall
        /\ registry = {"calculator", "moss"}
        /\ Contains(exec_log[i].out.res.error.text, "moss")

\* C9: an outcome is tagged as a parameter error exactly when the tool's
\* callable rejected the supplied parameters, and every failure raised by
\* the tool's own logic is tagged as an execution error.
C9_ErrorTagTellsTheKindsApart ==
    \A i \in 1..Len(exec_log) :
        LET e == exec_log[i] IN
        (e.request.tag = "toolcall" /\ e.request.tool_name \in registry) =>
            /\ IsParamError(e.out.res) <=> ~e.behaviour.bound
            /\ (e.behaviour.bound /\ e.behaviour.r.kind = "raise") => IsExecError(e.out.res)

\* C10: every outcome execute returns has success = true exactly when its
\* error is None; with success = true the result is the value the tool
\* returned; with success = false the result is None and the error is a
\* non-empty text.
C10_OutcomeShape ==
    \A i \in 1..Len(exec_log) :
        LET e == exec_log[i]
            r == exec_log[i].out.res
        IN  ~e.out.raised =>
            /\ r.success <=> ~r.error.some
            /\ r.success => (e.behaviour.r.kind = "return" /\ r.result = e.behaviour.r.value)
            /\ ~r.success => (r.result = NoneVal /\ r.error.some /\ r.error.text # <<>>)

C10_Witness ==
    /\ Len(exec_log) = 2
    /\ ~exec_log[1].out.raised /\ exec_log[1].out.res.success
    /\ exec_log[1].out.res.result = IntVal(15)
    /\ ~exec_log[2].out.raised /\ ~exec_log[2].out.res.success

(***************************************************************************)
(* Properties of ConversationManager (checked under SpecStore)             *)
(***************************************************************************)
Min(a, b) == IF a < b THEN a ELSE b
\* the last k elements of q
LastOf(q, k) == SubSeq(q, Len(q) - k + 1, Len(q))

\* C11: after n messages were appended to an empty store of capacity M the
\* store holds exactly the last min(n, M) of them in insertion order (none
\* evicted while n <= M, the k oldest gone for n = M + k).
C11_StoreKeepsTheLastMessages ==
    (pc = "store" /\ appended.fresh) =>
        messages = LastOf(appended.log, Min(Len(appended.log), max_history_length))

C11_Witness ==
    /\ appended.fresh
    /\ last_call.op = "add_message"
    /\ max_history_length = DefaultMaxHistoryLength + 1
    /\ Len(appended.log) = max_history_length + 2
    /\ Len(messages) = max_history_length
    /\ messages[1] = appended.log[3]

\* C12: in every reachable state of a ConversationManager the number of
\* stored messages is at most its max_history_length, also for a store
\* obtained by load_from_file and after further appends to it.
C12_StoreWithinCapacity == pc = "store" => Len(messages) <= max_history_length

C14_FailedLoadGivesAFreshStore ==
    last_call.op = "load_from_file" =>
        /\ ~last_call.raised
        /\ (last_call.arg.kind # "doc" \/ ~last_call.arg.complete \/ last_call.failed) =>
              /\ last_call.failed
              /\ messages = <<>>
              /\ cm_context = EmptyContext
              /\ max_history_length = DefaultMaxHistoryLength

C14_Witness ==
    /\ last_call.op = "load_from_file"
    /\ last_call.arg.kind = "doc"
    /\ ~last_call.arg.complete
    /\ messages = <<>>
    /\ start_time = 2

\* C15: a save_to_file that fails (the file cannot be written or the state
\* cannot be encoded) reports the failure to its caller.
C15_FailedSaveIsReported ==
    (last_call.op = "save_to_file" /\ last_call.failed) => last_call.raised

(***************************************************************************)
(* Properties of finalization                                              *)
(***************************************************************************)
\* C16 (checked under Spec): with the store enabled a turn appends exactly
\* two messages to the store: the user message first, before the first
\* think call, and last one assistant message whose content is the text
\* start_interaction returns and whose metadata holds the action kind of the
\* last decision and one {tool, success} entry per outcome of the turn in
\* execution order.
C16_TurnAppendsUserThenAssistant ==
    (use_conversation_manager /\ pc # "idle") =>
        /\ Len(store_appends) >= 1
        /\ store_appends[1].role = "user"
        /\ store_appends[1].content = TextContent(user_input)
        /\ pc \in {"loop", "exec"} => Len(store_appends) = 1
        /\ pc \in {"done", "raised"} =>
              /\ Len(store_appends) = 2
              /\ store_appends[2].role = "assistant"
              /\ store_appends[2].content = response
              /\ thought_chain # <<>> =>
                    store_appends[2].metadata.action_type
                        = SomeLabel("ActionType." \o Last(thought_chain).action_type)
              /\ Len(store_appends[2].metadata.tool_results) = Len(tool_results)
              /\ \A i \in 1..Len(tool_results) :
                    store_appends[2].metadata.tool_results[i]
                        = [tool |-> tool_results[i].tool_name,
                           success |-> tool_results[i].success]

\* C17 as stated (checked under SpecAbstract): after every finalized turn
\* with the store enabled the context holds the summaries of the turn's
\* outcomes in order, the action kind of the last decision and the first 100
\* characters of the user input, on every exit path.
C17_ContextAfterEveryFinalizedTurn ==
    (pc = "done" /\ use_conversation_manager) =>
        /\ cm_context.last_user_intent
              = SomeText(SubSeq(user_input, 1, Min(Len(user_input), 100)))
        /\ Len(cm_context.last_tool_results) = Len(tool_results)
        /\ thought_chain # <<>> =>
              cm_context.last_assistant_action
                  = SomeLabel("ActionType." \o Last(thought_chain).action_type)

\* C17 as amended (checked under SpecAbstract): after every finalized turn
\* with the store enabled in which at least one decision was made, the
\* context holds the summaries of the turn's outcomes in order (tool name,
\* success, the first 200 characters of the result's text), the action kind
\* of the last decision and the first 100 characters of the user input, on
\* the three exit paths.
C17_ContextAfterATurnWithADecision ==
    (pc = "done" /\ use_conversation_manager /\ thought_chain # <<>>) =>
        /\ cm_context.last_user_intent
              = SomeText(SubSeq(user_input, 1, Min(Len(user_input), 100)))
        /\ Len(cm_context.last_tool_results) = Len(tool_results)
        /\ \A i \in 1..Len(tool_results) :
              LET text == StrOf(tool_results[i].result)
              IN  cm_context.last_tool_results[i]
                      = [tool_name |-> tool_results[i].tool_name,
                         success |-> tool_results[i].success,
                         result |-> SubSeq(text, 1, Min(Len(text), 200))]
        /\ cm_context.last_assistant_action
              = SomeLabel("ActionType." \o Last(thought_chain).action_type)

C17_Witness ==
    /\ pc = "done"
    /\ use_conversation_manager
    /\ user_input = LongInput
    /\ Len(cm_context.last_user_intent.text) = 100
    /\ Len(thought_chain) = 2
    /\ Len(cm_context.last_tool_results) = 2
    /\ ~cm_context.last_tool_results[2].success

(***************************************************************************)
(* Properties of _parse_llm_response (checked under SpecParse)             *)
(***************************************************************************)
\* the text holds a "{" that is followed later by a "}"
HasBraces(t) == \E i \in 1..Len(t) : \E j \in (i + 1)..Len(t) : t[i] = "{" /\ t[j] = "}"

\* the text is one well-formed JSON object between two texts, and its
\* decoded members
IsObject(t) == Len(t) = 4 /\ t[2] = "{" /\ t[4] = "}" /\ t[3] \in DOMAIN JsonBodies
ObjectOf(t) == JsonBodies[t[3]]

\* C18: for a response text without a "{" that is followed later by a "}"
\* _parse_llm_response returns a DIRECT_REPLY decision whose action_content
\* is the response text unchanged and whose confidence is 0.5.
C18_NoObjectIsAReply ==
    \A i \in 1..Len(parse_log) :
        ~HasBraces(parse_log[i].response) =>
            /\ parse_log[i].thought.action_type = "DIRECT_REPLY"
            /\ parse_log[i].thought.action_content = TextContent(parse_log[i].response)
            /\ parse_log[i].thought.confidence = 50

C18_Witness ==
    /\ Len(parse_log) = 2
    /\ parse_log[1].response = <<"}", "t", "{">>
    /\ parse_log[1].thought.confidence = 50
    /\ parse_log[2].response = <<"{", "t">>
    /\ parse_log[2].thought.action_content = TextContent(<<"{", "t">>)

\* C19: the decoded action-kind label is mapped to its kind whatever its
\* letter case, and a label that is none of the four kinds decodes to
\* DIRECT_REPLY with a confidence of at most 0.5, whatever confidence the
\* response carried.
C19_UnknownLabelIsALowConfidenceReply ==
    \A i \in 1..Len(parse_log) :
        LET e == parse_log[i] IN
        (IsObject(e.response) /\ ObjectOf(e.response).action_type.t = "str"
         /\ ObjectOf(e.response).confidence.t = "num") =>
            IF ObjectOf(e.response).action_type.s
                   \in {"direct_reply", "DIRECT_REPLY", "Direct_Reply"}
            THEN e.thought.action_type = "DIRECT_REPLY"
            ELSE IF ObjectOf(e.response).action_type.s
                        \in {"call_tool", "CALL_TOOL", "Call_Tool"}
            THEN e.thought.action_type = "CALL_TOOL"
            ELSE IF ObjectOf(e.response).action_type.s
                        \in {"ask_user", "ASK_USER", "Ask_User"}
            THEN e.thought.action_type = "ASK_USER"
            ELSE IF ObjectOf(e.response).action_type.s
                        \in {"delegate", "DELEGATE", "Delegate"}
            THEN e.thought.action_type = "DELEGATE"
            ELSE /\ e.thought.action_type = "DIRECT_REPLY"
                 /\ e.thought.confidence <= 50

\* C20: every decision _parse_llm_response returns with action kind
\* CALL_TOOL carries a ToolCall, and a response whose action kind is
\* CALL_TOOL and whose action_content is not an object yields the fallback
\* DIRECT_REPLY decision with confidence 0.3.
C20_CallToolCarriesAToolCall ==
    \A i \in 1..Len(parse_log) :
        LET e == parse_log[i] IN
        /\ e.thought.action_type = "CALL_TOOL" => e.thought.action_content.tag = "toolcall"
        /\ (/\ IsObject(e.response)
            /\ ObjectOf(e.response).action_type.t = "str"
            /\ ObjectOf(e.response).action_type.s \in {"call_tool", "CALL_TOOL", "Call_Tool"}
            /\ ObjectOf(e.response).action_content.tag # "dict") =>
               /\ e.thought.action_type = "DIRECT_REPLY"
               /\ e.thought.confidence = 30

\* the part of the text from its first "{" to its last "}" is a well-formed
\* JSON object: "{}" or one of JsonBodies
FirstBrace(t) == CHOOSE i \in 1..Len(t) : t[i] = "{" /\ \A j \in 1..(i - 1) : t[j] # "{"
LastBrace(t) == CHOOSE i \in 1..Len(t) : t[i] = "}" /\ \A j \in (i + 1)..Len(t) : t[j] # "}"
Braced(t) == SubSeq(t, FirstBrace(t), LastBrace(t))
WellFormed(t) ==
    \/ Braced(t) = <<"{", "}">>
    \/ Len(Braced(t)) = 3 /\ Braced(t)[2] \in DOMAIN JsonBodies
\* the members of a well-formed object that is not "{}"
Members(t) == JsonBodies[Braced(t)[2]]

\* the response text makes the decoding fail: its object is malformed, its
\* action label is present and not a text, or its confidence is present and
\* not a number
DecodeFails(t) ==
    HasBraces(t) /\
        \/ ~WellFormed(t)
        \/ /\ Len(Braced(t)) = 3
           /\ \/ "action_type" \in Members(t).has /\ Members(t).action_type.t # "str"
              \/ "confidence" \in Members(t).has /\ Members(t).confidence.t # "num"

\* C21: _parse_llm_response returns a decision for every response text and
\* raises nothing; when the decoding fails (malformed object, action label
\* that is not a text, confidence that is not a number) the decision is
\* DIRECT_REPLY with confidence 0.3 and a text payload that embeds the raw
\* response text.
C21_ParserIsTotal ==
    \A i \in 1..Len(parse_log) :
        LET e == parse_log[i] IN
        /\ e.thought.action_type \in ActionType
        /\ DecodeFails(e.response) =>
              /\ e.thought.action_type = "DIRECT_REPLY"
              /\ e.thought.confidence = 30
              /\ e.thought.action_content.tag = "text"
              /\ ContainsText(e.thought.action_content.text, e.response)

C21_Witness ==
    /\ Len(parse_log) = 2
    /\ parse_log[1].response = <<"{", "reply", "}", "{", "reply", "}">>
    /\ parse_log[1].thought.confidence = 30
    /\ parse_log[2].response = <<"t", "{", "type_number", "}">>
    /\ parse_log[2].thought.action_type = "DIRECT_REPLY"
    /\ ContainsText(parse_log[2].thought.action_content.text, <<"t", "{", "type_number", "}">>)

\* C22: every decision _parse_llm_response returns has a confidence within
\* [0, 1]; a confidence that is missing or outside [0, 1] is replaced by 0.5.
C22_ConfidenceWithinRange ==
    \A i \in 1..Len(parse_log) :
        LET e == parse_log[i] IN
        /\ e.thought.confidence \in 0..100
        /\ (/\ HasBraces(e.response) /\ WellFormed(e.response) /\ Len(Braced(e.response)) = 3
            /\ Members(e.response).action_type.t = "str"
            /\ \/ "confidence" \notin Members(e.response).has
               \/ /\ Members(e.response).confidence.t = "num"
                  /\ Members(e.response).confidence.n \notin 0..100) =>
               e.thought.confidence = 50

(***************************************************************************)
(* Frame properties of ConversationManager (checked under SpecStore)       *)
(***************************************************************************)
\* C23: update_context changes exactly the context fields whose argument is
\* given (not None) and leaves every other context field, the messages, the
\* conversation id and the start time unchanged; called with no argument it
\* changes nothing.
C23_UpdateContextFrame ==
    [][\A args \in ContextArgs :
          UpdateContextCall(args) =>
              /\ cm_context'.last_tool_results =
                    IF args[1].given THEN args[1].v ELSE cm_context.last_tool_results
              /\ cm_context'.last_user_intent =
                    IF args[2].given THEN SomeText(args[2].v) ELSE cm_context.last_user_intent
              /\ cm_context'.last_assistant_action =
                    IF args[3].given THEN SomeLabel(args[3].v)
                    ELSE cm_context.last_assistant_action
              /\ cm_context'.context_summary =
                    IF args[4].given THEN SomeText(args[4].v) ELSE cm_context.context_summary
              /\ messages' = messages
              /\ conversation_id' = conversation_id
              /\ start_time' = start_time
              /\ max_history_length' = max_history_length
              /\ (\A i \in 1..4 : ~args[i].given) => cm_context' = cm_context]_vars

C23_Witness ==
    /\ last_call.op = "update_context"
    /\ cm_context.context_summary = SomeText(<<"summary">>)
    /\ cm_context.last_user_intent = SomeText(<<"hi">>)
    /\ cm_context.last_tool_results # <<>>
    /\ messages # <<>>

\* C24: the conversation id and the start time of a ConversationManager
\* never change after it is created: add_message, update_context,
\* clear_history, save_to_file and reading the store leave both unchanged
\* (only load_from_file, which hands out another manager, gives the caller
\* other values); clear_history only empties the messages and resets the
\* context.
C24_IdAndStartTimeAreFixed ==
    [][/\ last_call'.op # "load_from_file" =>
             /\ conversation_id' = conversation_id
             /\ start_time' = start_time
       /\ last_call'.op = "clear_history" =>
             /\ messages' = <<>>
             /\ cm_context' = EmptyContext
             /\ max_history_length' = max_history_length
             /\ file' = file]_vars

C24_Witness ==
    /\ last_call.op = "clear_history"
    /\ messages = <<>>
    /\ clock > 1
    /\ saved.messages # <<>>
    /\ saved.context # EmptyContext
    /\ conversation_id = saved.conversation_id
    /\ start_time = saved.start_time
    /\ conversation_id = GenerateConversationId(0)

(***************************************************************************)
(* Properties of reading the store (checked under SpecRead)                *)
(***************************************************************************)
\* C30: get_recent_messages(K) returns exactly the last min(K, n) messages
\* of a store holding n messages, in stored order, for every K >= 0: nothing
\* for K = 0 and all messages for K > n.
C30_RecentMessagesAreTheLastK ==
    last_call.op = "get_recent_messages" =>
        last_call.result = LastOf(messages, Min(last_call.count, Len(messages)))

(***************************************************************************)
(* Ordering of the calls of a turn (checked under Spec)                    *)
(***************************************************************************)
\* the dispatcher calls of the turn that returned an outcome
ReturnedCalls == {i \in 1..Len(exec_log) : ~exec_log[i].out.raised}

\* C25: within one turn think calls and dispatcher calls strictly alternate:
\* the i-th dispatcher call follows the i-th decision, which is CALL_TOOL,
\* and is given that decision's payload; every think call after the first
\* follows a dispatcher call that returned success; the number of outcomes
\* equals the number of CALL_TOOL decisions acted on, so that the decisions
\* outnumber the outcomes by 0 or 1.
C25_ThinkAndExecuteAlternate ==
    /\ think_calls = Len(thought_chain)
    /\ Len(exec_log) \in {think_calls - 1, think_calls}
    /\ \A i \in 1..Len(exec_log) :
          /\ thought_chain[i].action_type = "CALL_TOOL"
          /\ exec_log[i].request = thought_chain[i].action_content
    /\ \A i \in 1..(think_calls - 1) :
          /\ i <= Len(exec_log)
          /\ ~exec_log[i].out.raised
          /\ exec_log[i].out.res.success
    /\ pc = "exec" <=>
          (/\ think_calls = Len(exec_log) + 1
           /\ Last(thought_chain).action_type = "CALL_TOOL")
    /\ pc = "loop" => Len(exec_log) = think_calls
    /\ Len(tool_results) = Cardinality(ReturnedCalls)
    /\ \A i \in 1..Len(tool_results) : tool_results[i] = exec_log[i].out.res
    /\ Len(thought_chain) - Len(tool_results) \in {0, 1}

C25_Witness ==
    /\ pc = "done"
    /\ think_calls = 3
    /\ Len(exec_log) = 2
    /\ Len(tool_results) = 2
    /\ exec_log[1].request # exec_log[2].request
    /\ thought_chain[3].action_type = "ASK_USER"

(***************************************************************************)
(* Introspection of the dispatcher (checked under SpecExec)                *)
(***************************************************************************)
\* C27: get_all_tools_info, the introspection operation the driver and
\* jarvis.main call, is available on DefaultToolExecutor and returns one
\* entry for every registered tool, with its name, its parameter names and
\* its description; building it leaves the registry unchanged.
C27_ToolsInfoIsAvailable ==
    tools_info.op = "get_all_tools_info" =>
        /\ ~tools_info.raised
        /\ DOMAIN tools_info.info = registry
        /\ \A tool \in registry :
              /\ tools_info.info[tool].parameters
                    = Signature(tool).required \cup Signature(tool).optional
              /\ tools_info.info[tool].docstring # <<>>

(***************************************************************************)
(* Jobs of the scheduler beside a turn (checked under SpecJobs)            *)
(***************************************************************************)
\* C26: a tool call run by a scheduler job while a turn is active changes
\* neither the turn's decision trail, its outcome trail nor the
\* conversation store, wherever in the turn it is interleaved; no step,
\* DefaultToolExecutor.execute included, changes the tool registry, and the
\* outcome of each execute of the turn is the outcome of its own request.
C26_JobsLeaveTheTurnAlone ==
    [][/\ registry' = registry
       /\ job_log' # job_log =>
             /\ thought_chain' = thought_chain
             /\ tool_results' = tool_results
             /\ exec_log' = exec_log
             /\ messages' = messages
             /\ cm_context' = cm_context
             /\ pc' = pc
             /\ response' = response
       /\ \A i \in 1..Len(tool_results') :
             tool_results'[i].tool_name = thought_chain'[i].action_content.tool_name]_vars

C26_Witness ==
    /\ pc = "done"
    /\ job_log # <<>>
    /\ job_log[1].at = "exec"
    /\ job_log[1].job.tool_name = "moss"
    /\ Len(thought_chain) = 2
    /\ Len(tool_results) = 1
    /\ tool_results[1].tool_name = "calculator"
    /\ Len(messages) = 2

(***************************************************************************)
(* The request of LLMThinkingEngine (checked under Spec)                   *)
(***************************************************************************)
\* C28: the message sequence _build_messages sends starts with exactly one
\* system message, followed by the turn's history snapshot in its stored
\* order, followed by the messages synthesized from the turn's decisions
\* and outcomes (one per earlier decision, one per outcome, the user's
\* request last); no synthesized message precedes a history message.
C28_RequestOrder ==
    (producer = "llm" /\ think_calls >= 1) =>
        LET h == Len(conversation_history)
            k == think_calls - 1
        IN  /\ Len(llm_request) = 1 + h + 2 * k + 1
            /\ llm_request[1].role = "system"
            /\ llm_request[1].content = TextContent(<<"system_prompt">>)
            /\ \A i \in 1..h : llm_request[1 + i] = conversation_history[i]
            /\ \A i \in (1 + h + 1)..Len(llm_request) : llm_request[i].role # "system"
            /\ \A i \in 1..k :
                  /\ llm_request[1 + h + i].role = "assistant"
                  /\ llm_request[1 + h + i].content.text[1] = "call_tool: "
                  /\ llm_request[1 + h + i].content.text[2]
                        = thought_chain[i].action_content.tool_name
                  /\ llm_request[1 + h + k + i].role = "user"
                  /\ llm_request[1 + h + k + i].content.text[1] = "tool "
                  /\ llm_request[1 + h + k + i].content.text[2] = OutcomeOf(i).tool_name
            /\ Last(llm_request).role = "user"
            /\ ContainsText(Last(llm_request).content.text, user_input)

C28_Witness ==
    /\ producer = "llm"
    /\ think_calls = 3
    /\ Len(conversation_history) = 1
    /\ conversation_history[1].content = TextContent(<<"earlier">>)
    /\ Len(llm_request) = 7
    /\ llm_request[2] = conversation_history[1]
    /\ llm_request[3].content.text[2] # llm_request[4].content.text[2]

(***************************************************************************)
(* A turn without the store (checked under Spec)                           *)
(***************************************************************************)
\* the text a finished turn returns, from its decisions and outcomes alone
ResponseOf(chain, results) ==
    IF chain # <<>> /\ Last(chain).action_type \in {"DIRECT_REPLY", "ASK_USER", "DELEGATE"}
    THEN Last(chain).action_content
    ELSE IF results # <<>> /\ ~Last(results).success
    THEN TextContent(<<"exec_tool ", Last(results).tool_name, " failed: ">>
                     \o (IF Last(results).error.some THEN Last(results).error.text
                         ELSE <<"None">>))
    ELSE TextContent(<<"max_iterations_exceeded">>)

\* C29: a turn started with use_conversation_manager = False leaves the
\* coordinator's store unchanged on every exit path: no user message and no
\* assistant message is appended and the context is not updated; the
\* response of a finished turn is determined by its decisions and outcomes,
\* the same with and without the store.
C29_TurnWithoutTheStore ==
    /\ [](pc = "done" => response = ResponseOf(thought_chain, tool_results))
    /\ [][~use_conversation_manager' =>
             /\ messages' = messages
             /\ cm_context' = cm_context
             /\ clock' = clock
             /\ store_appends' = <<>>]_vars

C29_Witness ==
    /\ pc = "done"
    /\ ~use_conversation_manager
    /\ messages = <<>>
    /\ cm_context = EmptyContext
    /\ Len(tool_results) = 1
    /\ ~tool_results[1].success
    /\ response.text[1] = "exec_tool "

(***************************************************************************)
(* Properties of a turn that calls tools (checked under SpecTools)         *)
(***************************************************************************)
\* the first decision of the turn asked for calculator(a=10, b=5,
\* operation="add") and the dispatcher has run it
CalculatorScenario ==
    /\ Len(exec_log) >= 1
    /\ thought_chain[1].action_type = "CALL_TOOL"
    /\ thought_chain[1].action_content.tool_name = "calculator"
    /\ thought_chain[1].action_content.parameters
          = Params({<<"a", IntVal(10)>>, <<"b", IntVal(5)>>,
                    <<"operation", StrVal(<<"add">>)>>})

\* the outcome of the scenario, and its end when the second decision is a
\* DIRECT_REPLY whose payload contains "15"
CalculatorScenarioOutcome ==
    /\ ~exec_log[1].out.raised
    /\ OutcomeOf(1).success
    /\ OutcomeOf(1).result = IntVal(15)
    /\ (/\ Len(thought_chain) >= 2
        /\ thought_chain[2].action_type = "DIRECT_REPLY"
        /\ Contains(thought_chain[2].action_content.text, "15"))
       => /\ pc = "done"
          /\ Contains(response.text, "15")
          /\ think_calls = 2
          /\ Len(exec_log) = 1

\* after the outcome of the scenario the turn goes on to a second think
\* call: it does not stand at the end of the loop and has not returned
\* with one think call made
SecondThinkCall ==
    /\ (pc = "loop" /\ Len(thought_chain) = 1) => Len(thought_chain) < max_iterations
    /\ pc = "done" => think_calls >= 2

\* C31 as stated: a CALL_TOOL decision for calculator with parameters
\* {a:10, b:5, operation:"add"} yields an outcome with success=true and
\* result 15, the loop makes a second think call, and when that decision is
\* a DIRECT_REPLY whose payload contains "15" start_interaction returns a
\* text containing "15" after exactly two think calls and one tool
\* execution.
C31_CalculatorScenario ==
    CalculatorScenario => (CalculatorScenarioOutcome /\ SecondThinkCall)

\* C31 as amended: the same, the second think call being made when
\* max_iterations is at least 2; with max_iterations = 1 the turn returns
\* after the outcome without a second think call.
C31_CalculatorScenarioWithinBudget ==
    CalculatorScenario =>
        /\ CalculatorScenarioOutcome
        /\ max_iterations >= 2 => SecondThinkCall
        /\ (max_iterations = 1 /\ pc = "done") => think_calls = 1

C31_Witness ==
    /\ CalculatorScenario
    /\ pc = "done"
    /\ user_input = <<"1", "0", "+", "5">>
    /\ Len(thought_chain) = 2
    /\ thought_chain[2].action_type = "DIRECT_REPLY"
    /\ Contains(response.text, "15")
    /\ think_calls = 2
    /\ Len(exec_log) = 1
    /\ OutcomeOf(1).result = IntVal(15)

\* the value a tool returns from its except clause: the text
\* f"计算出错: {str(e)}" of Calculator, the dict {"error": str(e)} of
\* SchedulerTool
IsErrorValue(v) ==
    \/ v.tag = "str" /\ v.s # <<>> /\ v.s[1] = "calc_error: "
    \/ v = ObjVal(<<"error">>)

\* the i-th dispatcher call of the turn ran a tool that caught its failure
CaughtFailure(i) ==
    /\ exec_log[i].behaviour.bound
    /\ exec_log[i].behaviour.r.kind = "return"
    /\ IsErrorValue(exec_log[i].behaviour.r.value)

\* the calls that fail inside the tool: division by zero, unsupported
\* operation, unknown action, add without func, remove without job_id
FailingRequests ==
    {c \in CatchingToolCalls :
        \/ /\ c.tool_name = "calculator"
           /\ \/ ParamValue(c.parameters, "operation")
                    \notin {StrVal(<<"add">>), StrVal(<<"subtract">>),
                            StrVal(<<"multiply">>), StrVal(<<"divide">>)}
              \/ /\ ParamValue(c.parameters, "operation") = StrVal(<<"divide">>)
                 /\ ParamValue(c.parameters, "b").n = 0
        \/ /\ c.tool_name = "scheduler_tool"
           /\ LET action == ParamValue(c.parameters, "action")
              IN  \/ action \notin {StrVal(<<"add">>), StrVal(<<"remove">>),
                                    StrVal(<<"list">>), StrVal(<<"start">>),
                                    StrVal(<<"shutdown">>)}
                  \/ action = StrVal(<<"add">>) /\ "func" \notin ParamNames(c.parameters)
                  \/ action = StrVal(<<"remove">>)
                        /\ "job_id" \notin ParamNames(c.parameters)}

\* a failure caught by the tool is returned, and the dispatcher reports
\* the call as a success
CaughtFailureIsASuccess ==
    /\ \A i \in 1..Len(exec_log) :
          exec_log[i].request \in FailingRequests => CaughtFailure(i)
    /\ \A i \in 1..Len(exec_log) :
          CaughtFailure(i) =>
              /\ ~exec_log[i].out.raised
              /\ OutcomeOf(i).success
              /\ OutcomeOf(i).result = exec_log[i].behaviour.r.value
              /\ OutcomeOf(i).error = NoText

\* the last thing the turn did was to run a tool that caught its failure
\* (or the turn returned right after it)
AfterCaughtFailure ==
    /\ exec_log # <<>>
    /\ Len(exec_log) = Len(thought_chain)
    /\ CaughtFailure(Len(exec_log))

\* C37 as stated: a failure that a tool catches itself (Calculator: division
\* by zero, unsupported operation; SchedulerTool: unknown action, missing
\* func or job_id, backend error) is returned as an error value, the
\* dispatcher outcome has success=true, and the turn continues with a
\* further think call instead of ending with the failure message.
C37_CaughtFailureContinuesTheTurn ==
    /\ CaughtFailureIsASuccess
    /\ AfterCaughtFailure =>
          /\ pc = "loop"
          /\ Len(thought_chain) < max_iterations

\* C37 as amended: the same, the turn continuing with a further think call
\* while fewer than max_iterations decisions were made; after the
\* max_iterations-th decision it ends with the budget-exceeded message,
\* never with the failure message.
C37_CaughtFailureContinuesWithinBudget ==
    /\ CaughtFailureIsASuccess
    /\ AfterCaughtFailure =>
          /\ Len(thought_chain) < max_iterations => pc = "loop"
          /\ pc \in {"loop", "done"}
          /\ pc = "done" =>
                /\ Len(thought_chain) = max_iterations
                /\ response = TextContent(<<"max_iterations_exceeded">>)

C37_Witness ==
    /\ pc = "done"
    /\ Len(exec_log) = 2
    /\ exec_log[1].request = CalcDivideByZero
    /\ CaughtFailure(1)
    /\ exec_log[2].request.tool_name = "scheduler_tool"
    /\ CaughtFailure(2)
    /\ think_calls = 3
    /\ thought_chain[3].action_type = "DIRECT_REPLY"
    /\ response = thought_chain[3].action_content

(***************************************************************************)
(* Properties of a session of turns (checked under SpecSession)            *)
(***************************************************************************)
\* C32: on a Coordinator built with max_iterations <= 0, start_interaction
\* makes no think call and no tool execution and returns the
\* budget-exceeded message; with the store enabled it appends the user
\* message and an assistant message whose metadata has action_type None and
\* an empty tool_results, and it leaves the context of the store unchanged.
C32_NoBudgetNoDecision ==
    /\ [](max_iterations <= 0 =>
             /\ think_calls = 0
             /\ thought_chain = <<>>
             /\ exec_log = <<>>
             /\ pc \in {"idle", "loop", "done"}
             /\ pc = "done" =>
                   /\ response = TextContent(<<"max_iterations_exceeded">>)
                   /\ Len(store_appends) = 2
                   /\ store_appends[1].role = "user"
                   /\ store_appends[1].content = TextContent(user_input)
                   /\ store_appends[2].role = "assistant"
                   /\ store_appends[2].content = response
                   /\ store_appends[2].metadata
                         = [keys |-> {"action_type", "tool_results"},
                            action_type |-> NoLabel, tool_results |-> <<>>])
    /\ [][max_iterations <= 0 => cm_context' = cm_context]_vars

C32_Witness ==
    /\ max_iterations < 0
    /\ pc = "done"
    /\ turns = 1
    /\ cm_context.context_summary = SomeText(<<"summary">>)
    /\ cm_context.last_user_intent = NoText
    /\ Len(store_appends) = 2
    /\ response = TextContent(<<"max_iterations_exceeded">>)

\* C33: after every completed turn with the store enabled and
\* max_history_length >= 1, the last message of the store is an assistant
\* message whose content is the text start_interaction returned; when
\* max_history_length >= 2 the message before it is the user message of
\* that same turn, even when the store was at capacity before the turn.
C33_StoreEndsWithTheTurn ==
    (pc = "done" /\ use_conversation_manager /\ max_history_length >= 1) =>
        /\ messages # <<>>
        /\ messages[Len(messages)].role = "assistant"
        /\ messages[Len(messages)].content = response
        /\ max_history_length >= 2 =>
              /\ Len(messages) >= 2
              /\ messages[Len(messages) - 1].role = "user"
              /\ messages[Len(messages) - 1].content = TextContent(user_input)
              /\ messages[Len(messages) - 1] = store_appends[1]
              /\ messages[Len(messages) - 1].timestamp + 1
                    = messages[Len(messages)].timestamp

\* the second turn of a session has completed on a store of capacity 2 that
\* held two messages when the turn began
C33_Witness ==
    /\ pc = "done"
    /\ use_conversation_manager
    /\ turns = 1
    /\ max_history_length = 2
    /\ Len(messages) = 2
    /\ messages[1].role = "user"
    /\ messages[1].timestamp = 3
    /\ messages[2].role = "assistant"
    /\ messages[2].content = response

\* the number of messages of a role in a log
RECURSIVE CountRole(_, _)
CountRole(msgs, role) ==
    IF msgs = <<>> THEN 0
    ELSE (IF msgs[1].role = role THEN 1 ELSE 0) + CountRole(Tail(msgs), role)

\* the log is a contiguous part of user, assistant, user, assistant, ...
Alternates(msgs) ==
    /\ \A i \in 1..Len(msgs) : msgs[i].role \in {"user", "assistant"}
    /\ \A i \in 1..(Len(msgs) - 1) : msgs[i].role # msgs[i + 1].role

\* C34: when turns against one store run one after another, each with the
\* store enabled, the message log is at all times a contiguous part of the
\* sequence user, assistant, user, assistant, ...; between turns it ends
\* with an assistant message and, when max_history_length is even and at
\* least 2, it holds as many user messages as assistant messages.
C34_SerialTurnsAlternate ==
    /\ Alternates(messages)
    /\ (pc = "idle" /\ turns > 0) =>
          /\ messages # <<>>
          /\ messages[Len(messages)].role = "assistant"
          /\ (max_history_length >= 2 /\ max_history_length % 2 = 0) =>
                CountRole(messages, "user") = CountRole(messages, "assistant")

(***************************************************************************)
(* Properties of the requests of LLMThinkingEngine (checked under Spec)    *)
(***************************************************************************)
\* the positions of a request that hold the input as a user message
UserCopies(request, input) ==
    {i \in 1..Len(request) :
        request[i].role = "user" /\ request[i].content = TextContent(input)}

\* C35: on the first think call of a turn with the store enabled, the
\* request built by _build_messages contains the user's input exactly once
\* as a user message: the history snapshot and the current-input message do
\* not both carry it.
C35_InputSentOnce ==
    (producer = "llm" /\ use_conversation_manager /\ think_calls = 1) =>
        Cardinality(UserCopies(llm_request, user_input)) = 1

(***************************************************************************)
(* Properties of a failed LLM call (checked under SpecSession)             *)
(***************************************************************************)
\* the turn after the think call whose LLM call failed with the text
\* failure: a DIRECT_REPLY decision ends the turn in that iteration with
\* the failure text as the response and no tool was run; the decision has
\* confidence 0.5 and the text as its payload or, when the text contains
\* braces, it is the decode fallback (confidence 0.3, the text embedded)
FailureIsTheReply(failure) ==
    LET decision == thought_chain'[Len(thought_chain')]
    IN  /\ Len(thought_chain') = Len(thought_chain) + 1
        /\ decision.action_type = "DIRECT_REPLY"
        /\ IF HasBraces(failure)
           THEN /\ decision.confidence = 30
                /\ decision.action_content.tag = "text"
                /\ ContainsText(decision.action_content.text, failure)
           ELSE /\ decision.confidence = 50
                /\ decision.action_content = TextContent(failure)
        /\ pc' = "done"
        /\ response' = decision.action_content
        /\ ContainsText(response'.text, failure)
        /\ exec_log' = exec_log

\* C36: when the call to the LLM fails inside LLMThinkingEngine.think, no
\* exception reaches the driver: the failure text becomes the response
\* content, it is parsed as a DIRECT_REPLY decision with confidence 0.5 (or
\* by the decode fallback if the failure text contains braces), and the
\* turn ends in that iteration with that text as the response, without any
\* tool execution.
C36_FailedLLMCallEndsTheTurn ==
    [][\A r \in CallFailures : LLMThink(r) => FailureIsTheReply(r.content)]_vars

(***************************************************************************)
(* Properties of the context across turns (checked under SpecSession)      *)
(***************************************************************************)
\* the summaries of the outcomes of the running turn, as update_context is
\* given them
OutcomeSummaries ==
    [i \in 1..Len(tool_results) |->
        LET text == StrOf(tool_results[i].result)
        IN  [tool_name |-> tool_results[i].tool_name,
             success |-> tool_results[i].success,
             result |-> SubSeq(text, 1, Min(Len(text), 200))]]

\* no step of a turn changes context_summary
SummaryIsKept ==
    [][cm_context'.context_summary = cm_context.context_summary]_vars

\* C38 as stated: across consecutive turns on one store last_tool_results
\* reflects only the most recent finalized turn (a turn with at least one
\* decision and no tool call overwrites it with the empty list), and no
\* turn ever changes context_summary.
C38_ContextReflectsTheLastTurn ==
    /\ [](pc = "done" => cm_context.last_tool_results = OutcomeSummaries)
    /\ SummaryIsKept

\* C38 as amended: last_tool_results reflects only the most recent
\* finalized turn in which at least one decision was made (such a turn
\* without a tool call overwrites it with the empty list; a turn finalized
\* with an empty decision trail leaves the context as it was), and no turn
\* ever changes context_summary.
C38_ContextReflectsTheLastDecidedTurn ==
    /\ []((pc = "done" /\ thought_chain # <<>>) =>
             cm_context.last_tool_results = OutcomeSummaries)
    /\ [][(pc' # "done" \/ thought_chain' = <<>>) => cm_context' = cm_context]_vars
    /\ SummaryIsKept

\* the second turn of a session has ended with a decision and without a
\* tool call, after a first turn whose assistant message records an outcome
C38_Witness ==
    /\ pc = "done"
    /\ turns = 1
    /\ max_history_length = DefaultMaxHistoryLength
    /\ Len(messages) = 4
    /\ messages[2].metadata.tool_results # <<>>
    /\ thought_chain # <<>>
    /\ tool_results = <<>>
    /\ cm_context.last_tool_results = <<>>
    /\ cm_context.context_summary = SomeText(<<"summary">>)

====
